---- MODULE Spec2Model ----
(***************************************************************************)
(* CoulombGalore: truncated electrostatic pair interactions.               *)
(*                                                                         *)
(* A scheme object is constructed once (one action per constructor) and    *)
(* then its public operations are called in any order; every call is       *)
(* recorded with its arguments and its result.                             *)
(* MathSpec calls the free functions (factorial, binomial, q-Pochhammer)   *)
(* on their own.  ScreeningSpec builds Poisson over a range of Debye       *)
(* lengths.  TwoChargeSpec runs the comparison of point dipoles with pairs *)
(* of charges from the Plain test case.  LegacySpec runs the legacy header *)
(* src/src/coulomb.h next to the current one.  SharedSpec builds two       *)
(* objects from the same arguments (`sch` and `twin`) and lets several     *)
(* callers (`calls`) run operations on them concurrently.                  *)
(*                                                                         *)
(* Numbers.  A C++ double is modelled by an exact extended rational        *)
(* <<n, d>> in lowest terms with d >= 0; d = 0 encodes the IEEE specials   *)
(* (<<1,0>> = +inf, <<-1,0>> = -inf, <<0,0>> = NaN).  Rounding of doubles  *)
(* is not modelled.  The library functions std::exp, std::erfc, std::erf   *)
(* and the constant sqrt(pi) are irrational; they are evaluated on the     *)
(* integer grid only, with e rounded to 3, erfc(1..3) rounded to           *)
(* 3/19, 1/214, 1/45270 and sqrt(pi) rounded to 16/9.  These stand-ins     *)
(* keep exp(0) = 1, exp(a+b) = exp(a)exp(b), monotonicity, erfc(0) = 1 and *)
(* erfc(-x) = 2 - erfc(x).  Every input set below is chosen so that only   *)
(* grid arguments reach them.                                              *)
(*                                                                         *)
(* An `unsigned int` is modelled by the signed integer with the same 32    *)
(* bit pattern (a negative value stands for a value >= 2^31).              *)
(***************************************************************************)
EXTENDS Integers, Sequences, FiniteSets, TLC

VARIABLES phase, args, sch, call, twin, calls

vars == <<phase, args, sch, call, twin, calls>>

---------------------------------------------------------------------------
(* double arithmetic *)

Abs(i) == IF i < 0 THEN -i ELSE i

Sgn(i) == IF i < 0 THEN -1 ELSE IF i > 0 THEN 1 ELSE 0

RECURSIVE Gcd(_, _)
Gcd(a, b) == IF b = 0 THEN a ELSE Gcd(b, a % b)

RatBy(n, d, g, s) == <<(s * n) \div g, (s * d) \div g>>

Rat(n, d) ==
    IF d = 0 THEN <<Sgn(n), 0>>
    ELSE RatBy(n, d, Gcd(Abs(n), Abs(d)), Sgn(d))

D(i) == <<i, 1>>

infinity == <<1, 0>>

NaN == <<0, 0>>

Zero == <<0, 1>>

One == <<1, 1>>

Half == <<1, 2>>

IsFinite(a) == a[2] # 0

IsInf(a) == a[2] = 0 /\ a[1] # 0

IsNaN(a) == a[2] = 0 /\ a[1] = 0

Neg(a) == <<-a[1], a[2]>>

AddBy(a, b, g) ==
    Rat(a[1] * (b[2] \div g) + b[1] * (a[2] \div g), (a[2] \div g) * b[2])

Add(a, b) ==
    IF a[2] = 0 /\ b[2] = 0
    THEN (IF a[1] = b[1] THEN a ELSE NaN)
    ELSE AddBy(a, b, Gcd(a[2], b[2]))

Sub(a, b) == Add(a, Neg(b))

MulBy(a, b, g1, g2) ==
    Rat((a[1] \div g1) * (b[1] \div g2), (a[2] \div g2) * (b[2] \div g1))

Mul(a, b) ==
    IF a[2] = 0 \/ b[2] = 0
    THEN <<Sgn(a[1]) * Sgn(b[1]), 0>>
    ELSE MulBy(a, b, Gcd(Abs(a[1]), b[2]), Gcd(Abs(b[1]), a[2]))

Inv(a) == IF a[1] < 0 THEN <<-a[2], -a[1]>> ELSE <<a[2], a[1]>>

Div(a, b) == Mul(a, Inv(b))

Less(a, b) ==
    IF a[2] = 0 /\ b[2] = 0
    THEN a[1] # 0 /\ b[1] # 0 /\ a[1] < b[1]
    ELSE a[1] * b[2] < b[1] * a[2]

FAbs(a) == <<Abs(a[1]), a[2]>>

RECURSIVE PowNat(_, _)
PowNat(x, n) == IF n = 0 THEN One ELSE Mul(x, PowNat(x, n - 1))

powi(x, n) == IF n >= 0 THEN PowNat(x, n) ELSE Inv(PowNat(x, -n))

RECURSIVE IPow(_, _)
IPow(b, n) == IF n = 0 THEN 1 ELSE b * IPow(b, n - 1)

Exp(x) ==
    CASE x[2] = 0 /\ x[1] = 1 -> infinity
      [] x[2] = 0 /\ x[1] = -1 -> Zero
      [] x[2] = 0 /\ x[1] = 0 -> NaN
      [] x[2] = 1 /\ x[1] >= 0 -> <<IPow(3, x[1]), 1>>
      [] x[2] = 1 /\ x[1] < 0 -> <<1, IPow(3, -x[1])>>

ErfcTable == <<<<3, 19>>, <<1, 214>>, <<1, 45270>>>>

Erfc(x) ==
    CASE x[2] = 0 /\ x[1] = 1 -> Zero
      [] x[2] = 0 /\ x[1] = -1 -> D(2)
      [] x[2] = 0 /\ x[1] = 0 -> NaN
      [] x[2] = 1 /\ x[1] = 0 -> One
      [] x[2] = 1 /\ x[1] \in 1..3 -> ErfcTable[x[1]]
      [] x[2] = 1 /\ x[1] \in -3..-1 -> Sub(D(2), ErfcTable[-x[1]])

Erf(x) == Sub(One, Erfc(x))

SqrtPi == <<16, 9>>

ISqrt(n) == CHOOSE k \in 0..n : k * k = n

Sqrt(x) == IF x[2] = 0 THEN x ELSE <<ISqrt(x[1]), ISqrt(x[2])>>

---------------------------------------------------------------------------
(* Eigen::Vector3d *)

VDot(a, b) == Add(Add(Mul(a[1], b[1]), Mul(a[2], b[2])), Mul(a[3], b[3]))

squaredNorm(a) == VDot(a, a)

VScale(s, a) == <<Mul(s, a[1]), Mul(s, a[2]), Mul(s, a[3])>>

VAdd(a, b) == <<Add(a[1], b[1]), Add(a[2], b[2]), Add(a[3], b[3])>>

VSub(a, b) == <<Sub(a[1], b[1]), Sub(a[2], b[2]), Sub(a[3], b[3])>>

VNeg(a) == <<Neg(a[1]), Neg(a[2]), Neg(a[3])>>

VZero == <<Zero, Zero, Zero>>

---------------------------------------------------------------------------
(* unsigned int: 32 bit patterns *)

UMulSmall(a, m) ==
    LET al == a % 65536
        ah == ((a - al) \div 65536) % 65536
        lo == (al * m) % 65536
        carry == (al * m) \div 65536
        hi == (ah * m + carry) % 65536
    IN IF hi >= 32768 THEN (hi - 65536) * 65536 + lo ELSE hi * 65536 + lo

UMul(a, b) == IF Abs(b) < 32768 THEN UMulSmall(a, b) ELSE UMulSmall(b, a)

ULess(a, b) == IF (a < 0) = (b < 0) THEN a < b ELSE b < 0

UDiv(a, b) ==
    CASE b < 0 -> (IF ULess(a, b) THEN 0 ELSE 1)
      [] b > 0 /\ a >= 0 -> a \div b
      [] b > 0 /\ a < 0 ->
            LET h == ((a \div 2) + 1073741824) + 1073741824
                q1 == h \div b
                rem == h % b
                bit == a % 2
                even == IF q1 >= 1073741824
                        THEN ((q1 - 1073741824) * 2 - 1073741824) - 1073741824
                        ELSE 2 * q1
            IN IF rem >= b - rem - bit THEN even + 1 ELSE even

U2D(p) == CASE p >= 0 -> D(p)

RECURSIVE factorial(_)
factorial(n) ==
    IF n < 0 \/ n >= 34 THEN 0
    ELSE IF n <= 1 THEN 1 ELSE UMul(factorial(n - 1), n)

binomialUB(n, k) == factorial(k) = 0 \/ factorial(n - k) = 0

binomial(n, k) ==
    IF binomialUB(n, k) THEN 0
    ELSE UDiv(UDiv(factorial(n), factorial(k)), factorial(n - k))

---------------------------------------------------------------------------
(* q-Pochhammer symbol and its derivatives *)

RECURSIVE SumFor(_, _, _, _)
SumFor(F(_), k, end, acc) ==
    IF k < end THEN SumFor(F, k + 1, end, Add(acc, F(k))) ELSE acc

RECURSIVE ProdFor(_, _, _, _)
ProdFor(F(_), n, end, acc) ==
    IF n < end THEN ProdFor(F, n + 1, end, Mul(acc, F(n))) ELSE acc

qpCt(q, l, P) ==
    ProdFor(LAMBDA n : SumFor(LAMBDA k : powi(q, k - 1), 1, n + l + 1, Zero),
            1, P + 1, One)

qpNom(q, n, l) ==
    SumFor(LAMBDA k : Mul(D(k - 1), powi(q, k - 2)), 2, n + l + 1, Zero)

qpDenom(q, n, l) == SumFor(LAMBDA k : powi(q, k - 1), 2, n + l + 1, One)

qpDiffNom(q, n, l) ==
    SumFor(LAMBDA k : Mul(D((k - 1) * (k - 2)), powi(q, k - 3)), 3, n + l + 1, Zero)

qpDiffDenom(q, n, l, start) ==
    SumFor(LAMBDA k : Mul(D(k - 1), powi(q, k - 2)), 3, n + l + 1, start)

qpDDf(q, n, l) ==
    SumFor(LAMBDA k : Mul(D((k - 1) * (k - 2) * (k - 3)), powi(q, k - 4)),
           4, n + l + 1, Zero)

qpDDg(q, n, l) ==
    SumFor(LAMBDA k : Mul(D((k - 1) * (k - 2)), powi(q, k - 3)), 4, n + l + 1,
           IF n + l > 2 THEN D(2) ELSE Zero)

qpDS(q, l, P) ==
    SumFor(LAMBDA n : Div(qpNom(q, n, l), qpDenom(q, n, l)), 1, P + 1, Zero)

qpDt(q, P) == powi(Sub(One, q), P)

qpdDt(q, P) ==
    IF P > 0 THEN Mul(D(-P), powi(Sub(One, q), P - 1)) ELSE Zero

qpddDt(q, P) ==
    IF P > 1 THEN Mul(D(P * (P - 1)), powi(Sub(One, q), P - 2)) ELSE Zero

qpdddDt(q, P) ==
    IF P > 2 THEN Mul(D(-P * (P - 1) * (P - 2)), powi(Sub(One, q), P - 3)) ELSE Zero

(* fault model: the inner sum stops one term early, k < n + l *)
qPochhammerSymbol_short(q, l, P) ==
    Mul(ProdFor(LAMBDA n : SumFor(LAMBDA k : powi(q, k - 1), 1, n + l, Zero),
                1, P + 1, One),
        qpDt(q, P))

qPochhammerSymbol(q, l, P) == Mul(qpCt(q, l, P), qpDt(q, P))

(* dCt, ddCt and dddCt of the derivative functions, from Ct and the sums DS *)
qp_dCt(Ct, DS) == Mul(Ct, DS)

qp_ddCt(Ct, DS, dDS) == Add(Mul(qp_dCt(Ct, DS), DS), Mul(Ct, dDS))

qp_dddCt(Ct, DS, dDS, ddDS) ==
    Add(Add(Mul(qp_ddCt(Ct, DS, dDS), DS), Mul(Mul(D(2), qp_dCt(Ct, DS)), dDS)),
        Mul(Ct, ddDS))

(* (df * g - f * dg) / g / g *)
qp_dQuotient(f, g, df, dg) == Div(Div(Sub(Mul(df, g), Mul(f, dg)), g), g)

(* (ddf*g*g - 2.0*df*dg*g + 2.0*f*dg*dg - f*ddg*g) / g / g / g *)
qp_ddQuotient(f, g, df, dg, ddf, ddg) ==
    Div(Div(Div(Sub(Add(Sub(Mul(Mul(ddf, g), g),
                            Mul(Mul(Mul(D(2), df), dg), g)),
                        Mul(Mul(Mul(D(2), f), dg), dg)),
                    Mul(Mul(f, ddg), g)),
                g), g), g)

qPochhammerSymbolDerivative_of(q, P, Ct, DS) ==
    Add(Mul(Ct, qpdDt(q, P)), Mul(Mul(DS, Ct), qpDt(q, P)))

qPochhammerSymbolDerivative(q, l, P) ==
    qPochhammerSymbolDerivative_of(q, P, qpCt(q, l, P), qpDS(q, l, P))

qpdDS2(q, l, P) ==
    SumFor(LAMBDA n : qp_dQuotient(qpNom(q, n, l), qpDenom(q, n, l),
                                   qpDiffNom(q, n, l), qpDiffDenom(q, n, l, One)),
           1, P + 1, Zero)

qPochhammerSymbolSecondDerivative_of(q, P, Ct, DS, dDS) ==
    Add(Add(Mul(Ct, qpddDt(q, P)), Mul(Mul(D(2), qp_dCt(Ct, DS)), qpdDt(q, P))),
        Mul(qp_ddCt(Ct, DS, dDS), qpDt(q, P)))

qPochhammerSymbolSecondDerivative(q, l, P) ==
    qPochhammerSymbolSecondDerivative_of(q, P, qpCt(q, l, P), qpDS(q, l, P),
                                         qpdDS2(q, l, P))

qpdDS3(q, l, P) ==
    SumFor(LAMBDA n : qp_dQuotient(qpNom(q, n, l), qpDenom(q, n, l),
                                   qpDiffNom(q, n, l),
                                   qpDiffDenom(q, n, l, IF n + l > 1 THEN One ELSE Zero)),
           1, P + 1, Zero)

qpddDS3(q, l, P) ==
    SumFor(LAMBDA n : qp_ddQuotient(qpNom(q, n, l), qpDenom(q, n, l),
                                    qpDiffNom(q, n, l),
                                    qpDiffDenom(q, n, l, IF n + l > 1 THEN One ELSE Zero),
                                    qpDDf(q, n, l), qpDDg(q, n, l)),
           1, P + 1, Zero)

qPochhammerSymbolThirdDerivative_of(q, P, Ct, DS, dDS, ddDS) ==
    Add(Add(Add(Mul(qp_dddCt(Ct, DS, dDS, ddDS), qpDt(q, P)),
                Mul(Mul(D(3), qp_ddCt(Ct, DS, dDS)), qpdDt(q, P))),
            Mul(Mul(D(3), qp_dCt(Ct, DS)), qpddDt(q, P))),
        Mul(Ct, qpdddDt(q, P)))

qPochhammerSymbolThirdDerivative(q, l, P) ==
    qPochhammerSymbolThirdDerivative_of(q, P, qpCt(q, l, P), qpDS(q, l, P),
                                        qpdDS3(q, l, P), qpddDS3(q, l, P))

---------------------------------------------------------------------------
(* SchemeBase and EnergyImplementation<T>: the members every scheme has.   *)
(* variant is the class of the object (the T of the static_cast), scheme   *)
(* the enum member the constructor stores.                                 *)

EnergyImplementation(T, type, cutoff, debye_length) ==
    [variant |-> T,
     scheme |-> type,
     cutoff |-> cutoff,
     debye_length |-> debye_length,
     doi |-> "",
     name |-> "",
     invcutoff |-> Div(One, cutoff),
     cutoff2 |-> Mul(cutoff, cutoff),
     kappa |-> Div(One, debye_length)]

---------------------------------------------------------------------------
(* the splitting functions of the seven classes *)

(* fault model: a splitting function that decays with q *)
Plain_srf_decaying(s, q) == Sub(One, q)

Plain_srf(s, q) == One

Plain_dsrf(s, q) == Zero

Plain_ddsrf(s, q) == Zero

Plain_dddsrf(s, q) == Zero

Ewald_srf(s, q) ==
    Mul(Half,
        Add(Mul(Erfc(Add(Mul(s.alphaRed, q), s.beta)),
                Exp(Mul(Mul(Mul(D(4), s.alphaRed), s.beta), q))),
            Erfc(Sub(Mul(s.alphaRed, q), s.beta))))

Ewald_expC(s, q) == Exp(Neg(powi(Sub(Mul(s.alphaRed, q), s.beta), 2)))

Ewald_erfcC(s, q) == Erfc(Add(Mul(s.alphaRed, q), s.beta))

Ewald_exp4(s, q) == Exp(Mul(Mul(Mul(D(4), s.alphaRed), s.beta), q))

Ewald_dsrf(s, q) ==
    Add(Mul(Div(Mul(D(-2), s.alphaRed), SqrtPi), Ewald_expC(s, q)),
        Mul(Mul(Mul(Mul(D(2), s.alphaRed), s.beta), Ewald_erfcC(s, q)),
            Ewald_exp4(s, q)))

Ewald_ddsrf(s, q) ==
    Add(Mul(Mul(Div(Mul(D(4), s.alphaRed2), SqrtPi),
                Sub(Mul(s.alphaRed, q), Mul(D(2), s.beta))),
            Ewald_expC(s, q)),
        Mul(Mul(Mul(Mul(D(8), s.alphaRed2), s.beta2), Ewald_erfcC(s, q)),
            Ewald_exp4(s, q)))

Ewald_dddsrf(s, q) ==
    LET aq == Mul(s.alphaRed, q)
    IN Add(Mul(Mul(Div(Mul(D(4), s.alphaRed3), SqrtPi),
                   Sub(Sub(One,
                           Mul(Mul(D(2), Sub(aq, Mul(D(2), s.beta))),
                               Sub(aq, s.beta))),
                       Mul(D(4), s.beta2))),
               Ewald_expC(s, q)),
           Mul(Mul(Mul(Mul(D(32), s.alphaRed3), s.beta3), Ewald_erfcC(s, q)),
               Ewald_exp4(s, q)))

Wolf_expq(s, q) == Exp(Mul(Mul(Neg(s.alphaRed2), q), q))

Wolf_srf(s, q) == Sub(Erfc(Mul(s.alphaRed, q)), Mul(q, Erfc(s.alphaRed)))

Wolf_dsrf(s, q) ==
    Sub(Div(Mul(Mul(D(-2), Wolf_expq(s, q)), s.alphaRed), SqrtPi),
        Erfc(s.alphaRed))

Wolf_ddsrf(s, q) ==
    Div(Mul(Mul(Mul(Mul(D(4), Wolf_expq(s, q)), s.alphaRed2), s.alphaRed), q),
        SqrtPi)

Wolf_dddsrf(s, q) ==
    Div(Mul(Mul(Mul(Mul(D(-8), Wolf_expq(s, q)), s.alphaRed2), s.alphaRed),
            Sub(Mul(Mul(s.alphaRed2, q), q), Half)),
        SqrtPi)

qPotential_srf(s, q) == qPochhammerSymbol(q, 0, s.order)

(* fault model: the derivative is taken at level l = 1 *)
qPotential_dsrf_level1(s, q) == qPochhammerSymbolDerivative(q, 1, s.order)

qPotential_dsrf(s, q) == qPochhammerSymbolDerivative(q, 0, s.order)

qPotential_ddsrf(s, q) == qPochhammerSymbolSecondDerivative(q, 0, s.order)

qPotential_dddsrf(s, q) == qPochhammerSymbolThirdDerivative(q, 0, s.order)

(* double(binomial(D - 1 + c, c)) * double(C - c) / double(C) *)
PoissonFact(C, DD, c) ==
    Div(Mul(U2D(binomial(DD - 1 + c, c)), D(C - c)), D(C))

PoissonTmp(C, DD, qp, from, start) ==
    SumFor(LAMBDA c : Mul(PoissonFact(C, DD, c), powi(qp, c)), from, C, start)

PoissonTmp2(C, DD, qp) ==
    SumFor(LAMBDA c : Mul(Mul(PoissonFact(C, DD, c), D(c)), powi(qp, c - 1)),
           1, C, Zero)

PoissonS(C, DD, qp) ==
    Mul(powi(Sub(One, qp), DD + 1), PoissonTmp(C, DD, qp, 0, Zero))

PoissondS(C, DD, qp) ==
    Add(Mul(Mul(Neg(D(DD + 1)), powi(Sub(One, qp), DD)),
            PoissonTmp(C, DD, qp, 1, One)),
        Mul(powi(Sub(One, qp), DD + 1), PoissonTmp2(C, DD, qp)))

PoissonSimple_srf(s, q) == PoissonS(s.C, s.D, q)

PoissonSimple_dsrf(s, q) == PoissondS(s.C, s.D, q)

PoissonSimple_ddsrf(s, q) ==
    Mul(Mul(U2D(UMul(binomial(s.C + s.D, s.C), s.D)),
            powi(Sub(One, q), s.D - 1)),
        powi(q, s.C - 1))

PoissonSimple_dddsrf(s, q) ==
    Mul(Mul(Mul(U2D(UMul(binomial(s.C + s.D, s.C), s.D)),
                powi(Sub(One, q), s.D - 2)),
            powi(q, s.C - 2)),
        Sub(Add(Mul(Sub(D(2), D(s.C + s.D)), q), D(s.C)), One))

Poisson_e2kq(s, q) == Exp(Mul(Mul(D(2), s.kappaRed), q))

Poisson_qp(s, q) ==
    IF s.yukawa THEN Mul(Sub(One, Poisson_e2kq(s, q)), s.yukawa_denom) ELSE q

Poisson_dqpdq(s, q) ==
    Mul(Mul(Mul(D(-2), s.kappaRed), Poisson_e2kq(s, q)), s.yukawa_denom)

Poisson_d2qpdq2(s, q) ==
    Mul(Mul(Mul(D(-4), s.kappaRed2), Poisson_e2kq(s, q)), s.yukawa_denom)

Poisson_d3qpdq3(s, q) ==
    Mul(Mul(Mul(Mul(D(-8), s.kappaRed2), s.kappaRed), Poisson_e2kq(s, q)),
        s.yukawa_denom)

Poisson_d2Sdqp2(s, qp) ==
    Mul(Mul(s.binomCDC, powi(Sub(One, qp), s.D - 1)), powi(qp, s.C - 1))

Poisson_d3Sdqp3(s, qp) ==
    Mul(Mul(Mul(s.binomCDC, powi(Sub(One, qp), s.D - 2)), powi(qp, s.C - 2)),
        Sub(Add(Mul(Sub(D(2), D(s.C + s.D)), qp), D(s.C)), One))

Poisson_srf(s, q) == PoissonS(s.C, s.D, Poisson_qp(s, q))

Poisson_dsrf(s, q) ==
    Mul(PoissondS(s.C, s.D, Poisson_qp(s, q)),
        IF s.yukawa THEN Poisson_dqpdq(s, q) ELSE One)

Poisson_ddsrf_of(s, qp, dqpdq, d2qpdq2, dSdqp) ==
    Add(Mul(Mul(Poisson_d2Sdqp2(s, qp), dqpdq), dqpdq), Mul(dSdqp, d2qpdq2))

Poisson_ddsrf(s, q) ==
    Poisson_ddsrf_of(s, Poisson_qp(s, q),
                     IF s.yukawa THEN Poisson_dqpdq(s, q) ELSE One,
                     IF s.yukawa THEN Poisson_d2qpdq2(s, q) ELSE Zero,
                     IF s.yukawa THEN PoissondS(s.C, s.D, Poisson_qp(s, q)) ELSE Zero)

Poisson_dddsrf_of(s, qp, dqpdq, d2qpdq2, d3qpdq3, d2Sdqp2, dSdqp) ==
    Add(Add(Mul(Mul(Mul(Poisson_d3Sdqp3(s, qp), dqpdq), dqpdq), dqpdq),
            Mul(Mul(Mul(D(3), d2Sdqp2), dqpdq), d2qpdq2)),
        Mul(dSdqp, d3qpdq3))

Poisson_dddsrf(s, q) ==
    Poisson_dddsrf_of(s, Poisson_qp(s, q),
                      IF s.yukawa THEN Poisson_dqpdq(s, q) ELSE One,
                      IF s.yukawa THEN Poisson_d2qpdq2(s, q) ELSE Zero,
                      IF s.yukawa THEN Poisson_d3qpdq3(s, q) ELSE Zero,
                      IF s.yukawa THEN Poisson_d2Sdqp2(s, Poisson_qp(s, q)) ELSE Zero,
                      IF s.yukawa THEN PoissondS(s.C, s.D, Poisson_qp(s, q)) ELSE Zero)

(* fault model: cubic coefficient 2 instead of 2.5 *)
Fanourgakis_srf_cubic2(s, q) ==
    Mul(powi(Sub(One, q), 4),
        Add(Add(Add(One, Mul(<<9, 4>>, q)), Mul(Mul(D(3), q), q)),
            Mul(Mul(Mul(D(2), q), q), q)))

Fanourgakis_srf(s, q) ==
    Mul(powi(Sub(One, q), 4),
        Add(Add(Add(One, Mul(<<9, 4>>, q)), Mul(Mul(D(3), q), q)),
            Mul(Mul(Mul(<<5, 2>>, q), q), q)))

Fanourgakis_dsrf(s, q) ==
    Add(Sub(Add(<<-7, 4>>, Mul(<<105, 4>>, powi(q, 4))), Mul(D(42), powi(q, 5))),
        Mul(<<35, 2>>, powi(q, 6)))

Fanourgakis_ddsrf(s, q) ==
    Mul(Mul(D(105), powi(q, 3)), powi(Sub(q, One), 2))

Fanourgakis_dddsrf(s, q) ==
    Mul(Mul(Mul(D(525), powi(q, 2)), Sub(q, <<3, 5>>)), Sub(q, One))

(* static_cast<const T *>(this)->short_range_function...(q) *)
short_range_function(s, q) ==
    CASE s.variant = "Plain" -> Plain_srf(s, q)
      [] s.variant = "Ewald" -> Ewald_srf(s, q)
      [] s.variant = "Wolf" -> Wolf_srf(s, q)
      [] s.variant = "qPotential" -> qPotential_srf(s, q)
      [] s.variant = "PoissonSimple" -> PoissonSimple_srf(s, q)
      [] s.variant = "Poisson" -> Poisson_srf(s, q)
      [] s.variant = "Fanourgakis" -> Fanourgakis_srf(s, q)

short_range_function_derivative(s, q) ==
    CASE s.variant = "Plain" -> Plain_dsrf(s, q)
      [] s.variant = "Ewald" -> Ewald_dsrf(s, q)
      [] s.variant = "Wolf" -> Wolf_dsrf(s, q)
      [] s.variant = "qPotential" -> qPotential_dsrf(s, q)
      [] s.variant = "PoissonSimple" -> PoissonSimple_dsrf(s, q)
      [] s.variant = "Poisson" -> Poisson_dsrf(s, q)
      [] s.variant = "Fanourgakis" -> Fanourgakis_dsrf(s, q)

short_range_function_second_derivative(s, q) ==
    CASE s.variant = "Plain" -> Plain_ddsrf(s, q)
      [] s.variant = "Ewald" -> Ewald_ddsrf(s, q)
      [] s.variant = "Wolf" -> Wolf_ddsrf(s, q)
      [] s.variant = "qPotential" -> qPotential_ddsrf(s, q)
      [] s.variant = "PoissonSimple" -> PoissonSimple_ddsrf(s, q)
      [] s.variant = "Poisson" -> Poisson_ddsrf(s, q)
      [] s.variant = "Fanourgakis" -> Fanourgakis_ddsrf(s, q)

short_range_function_third_derivative(s, q) ==
    CASE s.variant = "Plain" -> Plain_dddsrf(s, q)
      [] s.variant = "Ewald" -> Ewald_dddsrf(s, q)
      [] s.variant = "Wolf" -> Wolf_dddsrf(s, q)
      [] s.variant = "qPotential" -> qPotential_dddsrf(s, q)
      [] s.variant = "PoissonSimple" -> PoissonSimple_dddsrf(s, q)
      [] s.variant = "Poisson" -> Poisson_dddsrf(s, q)
      [] s.variant = "Fanourgakis" -> Fanourgakis_dddsrf(s, q)

(* fault model: s(1) is added instead of subtracted *)
T0of_plus(s) ==
    Add(Add(short_range_function_derivative(s, One), short_range_function(s, One)),
        short_range_function(s, Zero))

(* T0 as the constructors of all classes but Ewald compute it *)
T0of(s) ==
    Add(Sub(short_range_function_derivative(s, One), short_range_function(s, One)),
        short_range_function(s, Zero))

---------------------------------------------------------------------------
(* constructors: the object each constructor leaves behind *)

Plain(debye_length) ==
    LET b == EnergyImplementation("Plain", "plain", infinity, debye_length)
        o == [b EXCEPT !.name = "plain", !.doi = "Coulomb"]
        p == [self_energy_prefactor |-> <<Zero, Zero>>] @@ o
    IN [T0 |-> T0of(p)] @@ p

Ewald(cutoff, alpha, eps_sur, debye_length) ==
    LET b == EnergyImplementation("Ewald", "ewald", cutoff, infinity)
        alphaRed == Mul(alpha, cutoff)
        alphaRed2 == Mul(alphaRed, alphaRed)
        alphaRed3 == Mul(alphaRed2, alphaRed)
        eps_par == IF Less(eps_sur, One) THEN infinity ELSE eps_sur
        T0 == IF IsInf(eps_par) THEN One
              ELSE Div(Mul(D(2), Sub(eps_par, One)), Add(Mul(D(2), eps_par), One))
        kappa == Div(One, debye_length)
        beta == Div(kappa, Mul(D(2), alpha))
        beta2 == Mul(beta, beta)
        beta3 == Mul(beta2, beta)
        p0 == Mul(Div(Neg(alphaRed), SqrtPi),
                  Add(Exp(Neg(beta2)), Mul(Mul(SqrtPi, beta), Erf(beta))))
        p1 == Mul(Div(Div(Mul(Neg(alphaRed3), D(2)), D(3)), SqrtPi),
                  Add(Mul(Mul(Mul(D(2), SqrtPi), beta3), Erfc(beta)),
                      Mul(Sub(One, Mul(D(2), beta2)), Exp(Neg(beta2)))))
    IN [alpha |-> alpha, eps_sur |-> eps_sur, alphaRed |-> alphaRed,
        alphaRed2 |-> alphaRed2, alphaRed3 |-> alphaRed3, T0 |-> T0,
        Ewald_kappa |-> kappa, beta |-> beta, beta2 |-> beta2, beta3 |-> beta3,
        self_energy_prefactor |-> <<p0, p1>>]
       @@ [b EXCEPT !.name = "Ewald real-space"]

Wolf(cutoff, alpha) ==
    LET b == EnergyImplementation("Wolf", "wolf", cutoff, infinity)
        alphaRed == Mul(alpha, cutoff)
        alphaRed2 == Mul(alphaRed, alphaRed)
        p == [alpha |-> alpha, alphaRed |-> alphaRed, alphaRed2 |-> alphaRed2,
              self_energy_prefactor |->
                  <<Div(Neg(alphaRed), SqrtPi),
                    Div(Div(Mul(Neg(powi(alphaRed, 3)), D(2)), D(3)), SqrtPi)>>]
             @@ [b EXCEPT !.name = "Wolf"]
    IN [T0 |-> T0of(p)] @@ p

qPotential(cutoff, order) ==
    LET b == EnergyImplementation("qPotential", "qpotential", cutoff, infinity)
        p == [order |-> order, self_energy_prefactor |-> <<D(-1), D(-1)>>]
             @@ [b EXCEPT !.name = "qpotential"]
    IN [T0 |-> T0of(p)] @@ p

(* fault model: C = 0 is let through *)
PoissonInvalid_C0(C, DD) == (C < 0) \/ (DD < -1)

PoissonInvalid(C, DD) == (C < 1) \/ (DD < -1)

(* some binomial() evaluated by the constructor divides by zero *)
PoissonSimpleUB(C, DD) == \E c \in 0..(C - 1) : binomialUB(DD - 1 + c, c)

PoissonUB(C, DD) == binomialUB(C + DD, C) \/ PoissonSimpleUB(C, DD)

PoissonSimple(cutoff, C, DD) ==
    LET b == EnergyImplementation("PoissonSimple", "poisson", cutoff, infinity)
        a1 == Div(Neg(D(C + DD)), D(C))
        p == [C |-> C, D |-> DD, self_energy_prefactor |-> <<a1, a1>>]
             @@ [b EXCEPT !.name = "poisson", !.doi = "10.1088/1367-2630/ab1ec1"]
    IN [T0 |-> T0of(p)] @@ p

YukawaThreshold == <<1, 1000000>>

Poisson(cutoff, C, DD, debye_length) ==
    LET b == EnergyImplementation("Poisson", "poisson", cutoff, debye_length)
        a0 == Div(Neg(D(C + DD)), D(C))
        kappaRed == Div(cutoff, debye_length)
        yukawa == Less(YukawaThreshold, FAbs(kappaRed))
        yukawa_denom == Div(One, Sub(One, Exp(Mul(D(2), kappaRed))))
        a1 == IF yukawa THEN Mul(a0, Mul(Mul(D(-2), kappaRed), yukawa_denom)) ELSE a0
        y == IF yukawa
             THEN [kappaRed2 |-> Mul(kappaRed, kappaRed), yukawa_denom |-> yukawa_denom]
             ELSE <<>>
        p == y @@ [C |-> C, D |-> DD, kappaRed |-> kappaRed, yukawa |-> yukawa,
                   binomCDC |-> U2D(UMul(binomial(C + DD, C), DD)),
                   self_energy_prefactor |-> <<a1, a1>>]
             @@ [b EXCEPT !.name = "poisson", !.doi = "10.1088/1367-2630/ab1ec1"]
    IN [T0 |-> T0of(p)] @@ p

Fanourgakis(cutoff) ==
    LET b == EnergyImplementation("Fanourgakis", "qpotential", cutoff, infinity)
        p == [self_energy_prefactor |-> <<D(-1), D(-1)>>]
             @@ [b EXCEPT !.name = "fanourgakis", !.doi = "10.1063/1.3216520"]
    IN [T0 |-> T0of(p)] @@ p

---------------------------------------------------------------------------
(* nlohmann::json as the constructors and to_json use it: an object is a   *)
(* function from keys to values, a value is a number or a string.          *)

JNum(x) == [t |-> "number", v |-> x]

JStr(str) == [t |-> "string", v |-> str]

JsonEmpty == <<>>

(* j[key] = value *)
JsonSet(j, key, value) == [k \in DOMAIN j \cup {key} |-> IF k = key THEN value ELSE j[k]]

(* j.value(key, default) of a key that holds a number or is absent *)
JsonValue(j, key, default) == IF key \in DOMAIN j THEN j[key].v ELSE default

(* double to int: the fraction is dropped *)
ToInt(x) == Sgn(x[1]) * (Abs(x[1]) \div x[2])

(* the keys a constructor reads with j.at(key) and with j.value(key, ...) *)
RequiredKeys(T) ==
    CASE T = "Plain" -> {}
      [] T \in {"Ewald", "Wolf"} -> {"cutoff", "alpha"}
      [] T = "qPotential" -> {"cutoff", "order"}
      [] T \in {"PoissonSimple", "Poisson"} -> {"cutoff", "C", "D"}
      [] T = "Fanourgakis" -> {"cutoff"}

OptionalKeys(T) ==
    CASE T \in {"Plain", "Poisson"} -> {"debyelength"}
      [] T = "Ewald" -> {"epss", "debyelength"}
      [] OTHER -> {}

(* the exception the conversions of T(const json &) throw: j.at() of an    *)
(* absent key, get<double>() or value() of a key that holds a string       *)
JsonThrows(T, j) ==
    IF \E k \in RequiredKeys(T) : k \notin DOMAIN j THEN "out_of_range"
    ELSE IF \E k \in (RequiredKeys(T) \cup OptionalKeys(T)) \cap DOMAIN j :
                j[k].t # "number"
         THEN "type_error"
         ELSE "none"

(* the arguments T(const json &j) passes on to the constructor of T *)
FromJsonArgs(T, j) ==
    CASE T = "Plain" ->
            [variant |-> T, debye_length |-> JsonValue(j, "debyelength", infinity)]
      [] T = "Ewald" ->
            [variant |-> T, cutoff |-> j["cutoff"].v, alpha |-> j["alpha"].v,
             eps_sur |-> JsonValue(j, "epss", infinity),
             debye_length |-> JsonValue(j, "debyelength", infinity)]
      [] T = "Wolf" -> [variant |-> T, cutoff |-> j["cutoff"].v, alpha |-> j["alpha"].v]
      [] T = "qPotential" ->
            [variant |-> T, cutoff |-> j["cutoff"].v, order |-> ToInt(j["order"].v)]
      [] T = "PoissonSimple" ->
            [variant |-> T, cutoff |-> j["cutoff"].v, C |-> ToInt(j["C"].v),
             D |-> ToInt(j["D"].v)]
      [] T = "Poisson" ->
            [variant |-> T, cutoff |-> j["cutoff"].v, C |-> ToInt(j["C"].v),
             D |-> ToInt(j["D"].v),
             debye_length |-> JsonValue(j, "debyelength", infinity)]
      [] T = "Fanourgakis" -> [variant |-> T, cutoff |-> j["cutoff"].v]

(* the object the constructor of a.variant builds from the arguments a *)
Build(a) ==
    CASE a.variant = "Plain" -> Plain(a.debye_length)
      [] a.variant = "Ewald" -> Ewald(a.cutoff, a.alpha, a.eps_sur, a.debye_length)
      [] a.variant = "Wolf" -> Wolf(a.cutoff, a.alpha)
      [] a.variant = "qPotential" -> qPotential(a.cutoff, a.order)
      [] a.variant = "PoissonSimple" -> PoissonSimple(a.cutoff, a.C, a.D)
      [] a.variant = "Poisson" -> Poisson(a.cutoff, a.C, a.D, a.debye_length)
      [] a.variant = "Fanourgakis" -> Fanourgakis(a.cutoff)

BuildInvalid(a) == a.variant \in {"PoissonSimple", "Poisson"} /\ PoissonInvalid(a.C, a.D)

BuildUB(a) ==
    \/ a.variant = "PoissonSimple" /\ PoissonSimpleUB(a.C, a.D)
    \/ a.variant = "Poisson" /\ PoissonUB(a.C, a.D)

(* the outcomes of constructing a.variant from a: the constructor throws,  *)
(* or a division by zero kills the process or yields 0, or the object      *)
(* exists                                                                  *)
Constructed(a) ==
    IF BuildInvalid(a) THEN {[phase |-> "failed", sch |-> <<>>]}
    ELSE IF BuildUB(a)
         THEN {[phase |-> "crashed", sch |-> <<>>], [phase |-> "ready", sch |-> Build(a)]}
         ELSE {[phase |-> "ready", sch |-> Build(a)]}

(* T(const json &j) *)
ConstructedFromJson(T, j) ==
    IF JsonThrows(T, j) # "none" THEN {[phase |-> "failed", sch |-> <<>>]}
    ELSE Constructed(FromJsonArgs(T, j))

(* T::_to_json(j): the variants with shape parameters replace j by an      *)
(* object of them; Ewald writes the string "inf" for an unbounded eps_sur; *)
(* Plain and Fanourgakis leave j alone                                     *)
_to_json(s, j) ==
    CASE s.variant = "Ewald" ->
            JsonSet(JsonSet(JsonEmpty, "alpha", JNum(s.alpha)), "epss",
                    IF IsInf(s.eps_sur) THEN JStr("inf") ELSE JNum(s.eps_sur))
      [] s.variant = "Wolf" -> JsonSet(JsonEmpty, "alpha", JNum(s.alpha))
      [] s.variant = "qPotential" -> JsonSet(JsonEmpty, "order", JNum(D(s.order)))
      [] s.variant \in {"PoissonSimple", "Poisson"} ->
            JsonSet(JsonSet(JsonEmpty, "C", JNum(D(s.C))), "D", JNum(D(s.D)))
      [] s.variant \in {"Plain", "Fanourgakis"} -> j

JsonSetIf(cond, j, key, value) == IF cond THEN JsonSet(j, key, value) ELSE j

(* SchemeBase::to_json(j) *)
to_json(s, j) ==
    JsonSetIf(IsFinite(s.debye_length),
              JsonSetIf(s.name # "",
                        JsonSetIf(s.doi # "",
                                  JsonSetIf(IsFinite(s.cutoff), _to_json(s, j),
                                            "cutoff", JNum(s.cutoff)),
                                  "doi", JStr(s.doi)),
                        "type", JStr(s.name)),
              "debyelength", JNum(s.debye_length))

(* enum class Scheme, and "other" for a value that is none of its members *)
SchemeTags ==
    {"plain", "ewald", "wolf", "poissonsimple", "poisson", "qpotential", "fanourgakis"}

(* the class createScheme instantiates for a tag *)
createSchemeClass(type) ==
    CASE type = "plain" -> "Plain"
      [] type = "ewald" -> "Ewald"
      [] type = "poisson" -> "Poisson"
      [] type = "poissonsimple" -> "PoissonSimple"
      [] type = "qpotential" -> "qPotential"
      [] type = "wolf" -> "Wolf"
      [] type = "fanourgakis" -> "Fanourgakis"

(* fault model: the default branch of the switch throws *)
createScheme_strict(type, j) ==
    IF type \in SchemeTags THEN ConstructedFromJson(createSchemeClass(type), j)
    ELSE {[phase |-> "failed", sch |-> <<>>]}

(* createScheme(type, j): the outcomes; an empty shared_ptr is returned    *)
(* for a type the switch does not list                                     *)
createScheme(type, j) ==
    IF type \in SchemeTags THEN ConstructedFromJson(createSchemeClass(type), j)
    ELSE {[phase |-> "empty", sch |-> <<>>]}

---------------------------------------------------------------------------
(* EnergyImplementation<T>: the public operations *)

(* fault model: the cutoff itself counts as inside *)
ion_potential_inclusive(s, z, r) ==
    IF ~Less(s.cutoff, r)
    THEN LET q == Mul(r, s.invcutoff)
         IN Mul(Mul(Div(z, r), short_range_function(s, q)),
                Exp(Mul(Neg(s.kappa), r)))
    ELSE Zero

(* fault model: the exponential screening factor is dropped *)
ion_potential_unscreened(s, z, r) ==
    IF Less(r, s.cutoff)
    THEN LET q == Mul(r, s.invcutoff)
         IN Mul(Div(z, r), short_range_function(s, q))
    ELSE Zero

ion_potential(s, z, r) ==
    IF Less(r, s.cutoff)
    THEN LET q == Mul(r, s.invcutoff)
         IN Mul(Mul(Div(z, r), short_range_function(s, q)),
                Exp(Mul(Neg(s.kappa), r)))
    ELSE Zero

(* short_range_function(q) * (1.0 + kappa * r1) - q * short_range_function_derivative(q) *)
Bracket1(s, q, r1) ==
    Sub(Mul(short_range_function(s, q), Add(One, Mul(s.kappa, r1))),
        Mul(q, short_range_function_derivative(s, q)))

(* fault model: the bracket s(q) - q s'(q) without the factor 1 + kappa r *)
dipole_potential_bare(s, mu, r) ==
    LET r2 == squaredNorm(r)
    IN IF Less(r2, s.cutoff2)
       THEN LET r1 == Sqrt(r2)
                q == Mul(r1, s.invcutoff)
            IN Mul(Mul(Div(Div(VDot(mu, r), r2), r1),
                       Sub(short_range_function(s, q),
                           Mul(q, short_range_function_derivative(s, q)))),
                   Exp(Mul(Neg(s.kappa), r1)))
       ELSE Zero

dipole_potential(s, mu, r) ==
    LET r2 == squaredNorm(r)
    IN IF Less(r2, s.cutoff2)
       THEN LET r1 == Sqrt(r2)
                q == Mul(r1, s.invcutoff)
            IN Mul(Mul(Div(Div(VDot(mu, r), r2), r1), Bracket1(s, q, r1)),
                   Exp(Mul(Neg(s.kappa), r1)))
       ELSE Zero

ion_field(s, z, r) ==
    LET r2 == squaredNorm(r)
    IN IF Less(r2, s.cutoff2)
       THEN LET r1 == Sqrt(r2)
                q == Mul(r1, s.invcutoff)
            IN VScale(Exp(Mul(Neg(s.kappa), r1)),
                      VScale(Bracket1(s, q, r1),
                             VScale(Inv(r1), VScale(Inv(r2), VScale(z, r)))))
       ELSE VZero

(* srf * (1 + kappa r1 + kappa^2 r2 / 3) - q dsrf (1 + 2/3 kappa r1) + q^2 / 3 ddsrf *)
BracketD(s, q, r1, r2, srf, dsrf, ddsrf) ==
    Add(Sub(Mul(srf, Add(Add(One, Mul(s.kappa, r1)),
                         Div(Mul(Mul(s.kappa, s.kappa), r2), D(3)))),
            Mul(Mul(q, dsrf), Add(One, Mul(Mul(<<2, 3>>, s.kappa), r1)))),
        Mul(Div(Mul(q, q), D(3)), ddsrf))

dipole_field_of(s, mu, r, r2, r1, r3, q, srf, dsrf, ddsrf) ==
    LET fieldD == VScale(BracketD(s, q, r1, r2, srf, dsrf, ddsrf),
                         VScale(Inv(r3),
                                VSub(VScale(Inv(r2),
                                            VScale(Mul(D(3), VDot(mu, r)), r)),
                                     mu)))
        fieldI == VScale(Div(Add(Sub(Mul(Mul(Mul(srf, s.kappa), s.kappa), r2),
                                     Mul(Mul(Mul(Mul(D(2), s.kappa), r1), q), dsrf)),
                                 Mul(Mul(ddsrf, q), q)),
                             D(3)),
                         VScale(Inv(r3), mu))
    IN VScale(Exp(Mul(Neg(s.kappa), r1)), VAdd(fieldD, fieldI))

dipole_field(s, mu, r) ==
    LET r2 == squaredNorm(r)
    IN IF Less(r2, s.cutoff2)
       THEN LET r1 == Sqrt(r2)
                q == Mul(r1, s.invcutoff)
            IN dipole_field_of(s, mu, r, r2, r1, Mul(r1, r2), q,
                               short_range_function(s, q),
                               short_range_function_derivative(s, q),
                               short_range_function_second_derivative(s, q))
       ELSE VZero

ion_ion_energy(s, zA, zB, r) == Mul(zB, ion_potential(s, zA, r))

(* fault model: the separation is not reversed *)
ion_dipole_energy_unflipped(s, z, mu, r) == Mul(z, dipole_potential(s, mu, r))

ion_dipole_energy(s, z, mu, r) == Mul(z, dipole_potential(s, mu, VNeg(r)))

(* fault model: the field of muA is taken where that of muB is due *)
dipole_dipole_energy_own_field(s, muA, muB, r) ==
    Neg(VDot(muA, dipole_field(s, muA, r)))

dipole_dipole_energy(s, muA, muB, r) == Neg(VDot(muA, dipole_field(s, muB, r)))

ion_ion_force(s, zA, zB, r) == VScale(zB, ion_field(s, zA, r))

ion_dipole_force(s, z, mu, r) == VScale(z, dipole_field(s, mu, r))

dipole_dipole_force_of(s, muA, muB, r2, r1, rh, q, srf, dsrf, ddsrf, dddsrf) ==
    LET q2 == Mul(q, q)
        r4 == Mul(r2, r2)
        muAdotRh == VDot(muA, rh)
        muBdotRh == VDot(muB, rh)
        kr == Mul(s.kappa, r1)
        forceD ==
            VScale(BracketD(s, q, r1, r2, srf, dsrf, ddsrf),
                   VScale(Inv(r4),
                          VScale(D(3),
                                 VSub(VSub(VScale(Sub(Mul(Mul(D(5), muAdotRh), muBdotRh),
                                                      VDot(muA, muB)), rh),
                                           VScale(muBdotRh, muA)),
                                      VScale(muAdotRh, muB)))))
        forceI ==
            VScale(Sub(Add(Sub(Mul(Mul(Mul(Mul(srf, Add(One, kr)), s.kappa), s.kappa), r2),
                               Mul(Mul(Mul(Mul(q, dsrf), Add(Mul(D(3), kr), D(2))),
                                       s.kappa), r1)),
                           Mul(Mul(ddsrf, Add(One, Mul(D(3), kr))), q2)),
                       Mul(Mul(q2, q), dddsrf)),
                   VScale(Inv(r4), VScale(Mul(muAdotRh, muBdotRh), rh)))
    IN VScale(Exp(Mul(Neg(s.kappa), r1)), VAdd(forceD, forceI))

dipole_dipole_force(s, muA, muB, r) ==
    LET r2 == squaredNorm(r)
    IN IF Less(r2, s.cutoff2)
       THEN LET r1 == Sqrt(r2)
                q == Mul(r1, s.invcutoff)
            IN dipole_dipole_force_of(s, muA, muB, r2, r1, VScale(Inv(r1), r), q,
                                      short_range_function(s, q),
                                      short_range_function_derivative(s, q),
                                      short_range_function_second_derivative(s, q),
                                      short_range_function_third_derivative(s, q))
       ELSE VZero

(* fault model: exponent 2i instead of 2i + 1 *)
(* calc_dielectric(M2V): the one public member function that is not        *)
(* const-qualified; it reads T0 and writes nothing.                        *)
calc_dielectric(s, M2V) ==
    Div(Add(Add(Mul(M2V, s.T0), Mul(D(2), M2V)), One),
        Add(Sub(Mul(M2V, s.T0), M2V), One))

(* fault model: the operation overwrites T0 *)
SchemeAfterCall_caching(s) == [s EXCEPT !.T0 = Add(s.T0, One)]

(* The object after a public operation has returned. Every operation of    *)
(* EnergyImplementation<T> and of the variants is const-qualified, and the *)
(* body of calc_dielectric contains no assignment, so no member is         *)
(* written.                                                                *)
SchemeAfterCall(s) == s

self_energy_even(s, m2) ==
    IF Len(s.self_energy_prefactor) # Len(m2)
    THEN [ret |-> "throw", what |-> "std::runtime_error"]
    ELSE [ret |-> "value",
          value |-> SumFor(LAMBDA i : Mul(Mul(s.self_energy_prefactor[i + 1], m2[i + 1]),
                                          powi(s.invcutoff, 2 * i)),
                           0, Len(s.self_energy_prefactor), Zero)]

self_energy(s, m2) ==
    IF Len(s.self_energy_prefactor) # Len(m2)
    THEN [ret |-> "throw", what |-> "std::runtime_error"]
    ELSE [ret |-> "value",
          value |-> SumFor(LAMBDA i : Mul(Mul(s.self_energy_prefactor[i + 1], m2[i + 1]),
                                          powi(s.invcutoff, 2 * i + 1)),
                           0, Len(s.self_energy_prefactor), Zero)]

dipole_torque(mu, E) ==
    <<Sub(Mul(mu[2], E[3]), Mul(mu[3], E[2])),
      Sub(Mul(mu[3], E[1]), Mul(mu[1], E[3])),
      Sub(Mul(mu[1], E[2]), Mul(mu[2], E[1]))>>

---------------------------------------------------------------------------
(* bounds and input sets *)

MaxC == 4
MaxD == 3
MaxLevel == 1
MaxP == 4
MaxFractionDegree == 3
MaxFactorial == 13

PlainDebye == {infinity, One, Half}
EwaldCutoffs == {D(2)}
EwaldAlphas == {One}
EwaldEpsSur == {infinity, Half, One, D(2)}
EwaldDebye == {infinity, Half}
WolfCutoffs == {D(2)}
WolfAlphas == {One}
qPotentialCutoffs == {D(2), D(4)}
qPotentialOrders == {0, 1, 2, 3, 4, 5, 6}
PoissonCutoffs == {D(2), D(4)}
PoissonScreening == {<<D(2), One>>, <<D(4), D(2)>>}
PoissonScreenedC == {0, 1, 2}
PoissonScreenedD == {-2, -1, 0, 1, 2}

(* <<cutoff, C, D, debye_length>> *)
PoissonArgs ==
    {<<c, C, DD, infinity>> : c \in PoissonCutoffs, C \in 0..MaxC, DD \in (-2)..MaxD}
    \cup {<<cd[1], C, DD, cd[2]>> : cd \in PoissonScreening, C \in PoissonScreenedC,
                                    DD \in PoissonScreenedD}
UBOutcomes == {"trap", "zero"}

NumCallers == 2
Callers == 1..NumCallers

(* no second object, no caller inside a call *)
NoTwin == [phase |-> "none", sch |-> <<>>]
NoCalls == [t \in Callers |-> [pc |-> "idle"]]

(* the parameter bundles handed to createScheme: every key a constructor   *)
(* reads is present; debyelength is given to the classes that take one     *)
FactoryBundle ==
    [cutoff |-> JNum(D(2)), alpha |-> JNum(One), order |-> JNum(D(2)),
     C |-> JNum(D(2)), D |-> JNum(One), epss |-> JNum(D(2))]

FactoryCalls ==
    {<<type, FactoryBundle>> : type \in SchemeTags \cup {"other"}}
    \cup {<<"plain", JsonSet(FactoryBundle, "debyelength", JNum(One))>>,
          <<"ewald", JsonSet(FactoryBundle, "debyelength", JNum(Half))>>,
          <<"poisson", JsonSet(FactoryBundle, "debyelength", JNum(One))>>}

SquaredMoments == {Zero, One, D(3)}

Charges == {D(2), D(-1)}
Dipoles == {<<One, D(2), D(-1)>>, <<Zero, D(-1), Zero>>}
Directions == {<<One, Zero, Zero>>, <<<<3, 5>>, <<4, 5>>, Zero>>}
Moments == {<<D(4), D(6)>>, <<One, Zero>>, <<Zero, One>>}
QGrid == {Zero, Half, One}
QEnds == {Zero, One}
QFine == {<<k, 8>> : k \in {1, 3, 5, 7}} \cup {<<1, 4>>, <<3, 4>>} \cup QGrid
QBases == {Zero, Half, One, D(2), D(-1)}

(* a qPotential of order above 4 is evaluated at the end points q = 0, 1   *)
(* and at separations r >= cutoff only: its derivatives at interior points *)
(* leave the 32 bit range of the exact rationals                           *)
HighOrder(s) == s.variant = "qPotential" /\ s.order > 4

(* reduced distances at which the splitting functions are called directly; *)
(* nine points for Fanourgakis, whose polynomials have degree <= 7         *)
QGridOf(s) ==
    IF s.variant = "Fanourgakis" THEN QFine
    ELSE IF HighOrder(s) THEN QEnds
    ELSE QGrid

(* separations below, at and beyond the cutoff *)
Distances(s) ==
    IF IsInf(s.cutoff) THEN {One, D(2)}
    ELSE IF HighOrder(s) THEN {s.cutoff, Mul(<<3, 2>>, s.cutoff)}
    ELSE {Mul(Half, s.cutoff), s.cutoff, Mul(<<3, 2>>, s.cutoff)}

Separations(s) == {VScale(r, e) : r \in Distances(s), e \in Directions}

---------------------------------------------------------------------------
(* construction *)

ConstructPlain ==
    /\ phase = "none"
    /\ \E dl \in PlainDebye :
          /\ args' = [variant |-> "Plain", debye_length |-> dl]
          /\ sch' = Plain(dl)
    /\ phase' = "ready"
    /\ UNCHANGED <<call, twin, calls>>

ConstructEwald ==
    /\ phase = "none"
    /\ \E c \in EwaldCutoffs, a \in EwaldAlphas, e \in EwaldEpsSur, dl \in EwaldDebye :
          /\ args' = [variant |-> "Ewald", cutoff |-> c, alpha |-> a,
                      eps_sur |-> e, debye_length |-> dl]
          /\ sch' = Ewald(c, a, e, dl)
    /\ phase' = "ready"
    /\ UNCHANGED <<call, twin, calls>>

ConstructWolf ==
    /\ phase = "none"
    /\ \E c \in WolfCutoffs, a \in WolfAlphas :
          /\ args' = [variant |-> "Wolf", cutoff |-> c, alpha |-> a]
          /\ sch' = Wolf(c, a)
    /\ phase' = "ready"
    /\ UNCHANGED <<call, twin, calls>>

ConstructqPotential ==
    /\ phase = "none"
    /\ \E c \in qPotentialCutoffs, o \in qPotentialOrders :
          /\ args' = [variant |-> "qPotential", cutoff |-> c, order |-> o]
          /\ sch' = qPotential(c, o)
    /\ phase' = "ready"
    /\ UNCHANGED <<call, twin, calls>>

ConstructFanourgakis ==
    /\ phase = "none"
    /\ \E c \in PoissonCutoffs :
          /\ args' = [variant |-> "Fanourgakis", cutoff |-> c]
          /\ sch' = Fanourgakis(c)
    /\ phase' = "ready"
    /\ UNCHANGED <<call, twin, calls>>

(* outcome of a Poisson-type constructor: it throws on invalid (C, D);     *)
(* when one of its binomial() calls divides by zero the behaviour is        *)
(* undefined: the process is killed ("trap") or the division yields 0 and   *)
(* construction completes ("zero").                                         *)
PoissonOutcome(invalid, ub, obj(_)) ==
    IF invalid THEN phase' = "failed" /\ sch' = <<>>
    ELSE IF ub
         THEN \E o \in UBOutcomes :
                 IF o = "trap" THEN phase' = "crashed" /\ sch' = <<>>
                 ELSE phase' = "ready" /\ sch' = obj(0)
         ELSE phase' = "ready" /\ sch' = obj(0)

ConstructPoissonSimple ==
    /\ phase = "none"
    /\ \E c \in PoissonCutoffs, C \in 0..MaxC, DD \in (-2)..MaxD :
          /\ args' = [variant |-> "PoissonSimple", cutoff |-> c, C |-> C, D |-> DD]
          /\ PoissonOutcome(PoissonInvalid(C, DD), PoissonSimpleUB(C, DD),
                            LAMBDA x : PoissonSimple(c, C, DD))
    /\ UNCHANGED <<call, twin, calls>>

ConstructPoisson ==
    /\ phase = "none"
    /\ \E a \in PoissonArgs :
          /\ args' = [variant |-> "Poisson", cutoff |-> a[1], C |-> a[2], D |-> a[3],
                      debye_length |-> a[4]]
          /\ PoissonOutcome(PoissonInvalid(a[2], a[3]), PoissonUB(a[2], a[3]),
                            LAMBDA x : Poisson(a[1], a[2], a[3], a[4]))
    /\ UNCHANGED <<call, twin, calls>>

(* what is known of the constructor arguments after createScheme(type, j) *)
FactoryArgs(type, j) ==
    [factory |-> type, json |-> j]
    @@ (IF type \in SchemeTags /\ JsonThrows(createSchemeClass(type), j) = "none"
        THEN FromJsonArgs(createSchemeClass(type), j)
        ELSE [variant |-> "none"])

Call_createScheme ==
    /\ phase = "none"
    /\ \E f \in FactoryCalls :
          /\ args' = FactoryArgs(f[1], f[2])
          /\ \E o \in createScheme(f[1], f[2]) :
                phase' = o.phase /\ sch' = o.sch
    /\ UNCHANGED <<call, twin, calls>>

---------------------------------------------------------------------------
(* calls on the constructed object; `call` holds the call being returned *)

Idle == phase = "ready" /\ call.op = "none"

Call_ion_potential ==
    /\ Idle
    /\ \E z \in Charges, r \in Distances(sch) :
          call' = [op |-> "ion_potential", z |-> z, r |-> r,
                   value |-> ion_potential(sch, z, r)]
    /\ sch' = SchemeAfterCall(sch)
    /\ UNCHANGED <<phase, args, twin, calls>>

Call_dipole_potential ==
    /\ Idle
    /\ \E mu \in Dipoles, r \in Separations(sch) :
          call' = [op |-> "dipole_potential", mu |-> mu, r |-> r,
                   value |-> dipole_potential(sch, mu, r)]
    /\ sch' = SchemeAfterCall(sch)
    /\ UNCHANGED <<phase, args, twin, calls>>

Call_ion_field ==
    /\ Idle
    /\ \E z \in Charges, r \in Separations(sch) :
          call' = [op |-> "ion_field", z |-> z, r |-> r,
                   value |-> ion_field(sch, z, r)]
    /\ sch' = SchemeAfterCall(sch)
    /\ UNCHANGED <<phase, args, twin, calls>>

Call_dipole_field ==
    /\ Idle
    /\ \E mu \in Dipoles, r \in Separations(sch) :
          call' = [op |-> "dipole_field", mu |-> mu, r |-> r,
                   value |-> dipole_field(sch, mu, r)]
    /\ sch' = SchemeAfterCall(sch)
    /\ UNCHANGED <<phase, args, twin, calls>>

Call_ion_ion_energy ==
    /\ Idle
    /\ \E zA \in Charges, zB \in Charges, r \in Distances(sch) :
          call' = [op |-> "ion_ion_energy", zA |-> zA, zB |-> zB, r |-> r,
                   value |-> ion_ion_energy(sch, zA, zB, r)]
    /\ sch' = SchemeAfterCall(sch)
    /\ UNCHANGED <<phase, args, twin, calls>>

Call_ion_dipole_energy ==
    /\ Idle
    /\ \E z \in Charges, mu \in Dipoles, r \in Separations(sch) :
          call' = [op |-> "ion_dipole_energy", z |-> z, mu |-> mu, r |-> r,
                   value |-> ion_dipole_energy(sch, z, mu, r)]
    /\ sch' = SchemeAfterCall(sch)
    /\ UNCHANGED <<phase, args, twin, calls>>

Call_dipole_dipole_energy ==
    /\ Idle
    /\ \E muA \in Dipoles, muB \in Dipoles, r \in Separations(sch) :
          call' = [op |-> "dipole_dipole_energy", muA |-> muA, muB |-> muB, r |-> r,
                   value |-> dipole_dipole_energy(sch, muA, muB, r)]
    /\ sch' = SchemeAfterCall(sch)
    /\ UNCHANGED <<phase, args, twin, calls>>

Call_ion_ion_force ==
    /\ Idle
    /\ \E zA \in Charges, zB \in Charges, r \in Separations(sch) :
          call' = [op |-> "ion_ion_force", zA |-> zA, zB |-> zB, r |-> r,
                   value |-> ion_ion_force(sch, zA, zB, r)]
    /\ sch' = SchemeAfterCall(sch)
    /\ UNCHANGED <<phase, args, twin, calls>>

Call_ion_dipole_force ==
    /\ Idle
    /\ \E z \in Charges, mu \in Dipoles, r \in Separations(sch) :
          call' = [op |-> "ion_dipole_force", z |-> z, mu |-> mu, r |-> r,
                   value |-> ion_dipole_force(sch, z, mu, r)]
    /\ sch' = SchemeAfterCall(sch)
    /\ UNCHANGED <<phase, args, twin, calls>>

Call_dipole_dipole_force ==
    /\ Idle
    /\ \E muA \in Dipoles, muB \in Dipoles, r \in Separations(sch) :
          call' = [op |-> "dipole_dipole_force", muA |-> muA, muB |-> muB, r |-> r,
                   value |-> dipole_dipole_force(sch, muA, muB, r)]
    /\ sch' = SchemeAfterCall(sch)
    /\ UNCHANGED <<phase, args, twin, calls>>

Call_dipole_torque ==
    /\ Idle
    /\ \E mu \in Dipoles, E \in Dipoles :
          call' = [op |-> "dipole_torque", mu |-> mu, E |-> E,
                   value |-> dipole_torque(mu, E)]
    /\ sch' = SchemeAfterCall(sch)
    /\ UNCHANGED <<phase, args, twin, calls>>

(* m2 is a std::array<double, 2>: its length is fixed by its type *)
Call_self_energy ==
    /\ Idle
    /\ \E m2 \in Moments :
          LET res == self_energy(sch, m2)
          IN call' = [op |-> "self_energy", m2 |-> m2] @@ res
    /\ sch' = SchemeAfterCall(sch)
    /\ UNCHANGED <<phase, args, twin, calls>>

Call_short_range_function ==
    /\ Idle
    /\ \E q \in QGridOf(sch) :
          call' = [op |-> "short_range_function", q |-> q,
                   value |-> short_range_function(sch, q)]
    /\ sch' = SchemeAfterCall(sch)
    /\ UNCHANGED <<phase, args, twin, calls>>

Call_short_range_function_derivative ==
    /\ Idle
    /\ \E q \in QGridOf(sch) :
          call' = [op |-> "short_range_function_derivative", q |-> q,
                   value |-> short_range_function_derivative(sch, q)]
    /\ sch' = SchemeAfterCall(sch)
    /\ UNCHANGED <<phase, args, twin, calls>>

Call_short_range_function_second_derivative ==
    /\ Idle
    /\ \E q \in QGridOf(sch) :
          call' = [op |-> "short_range_function_second_derivative", q |-> q,
                   value |-> short_range_function_second_derivative(sch, q)]
    /\ sch' = SchemeAfterCall(sch)
    /\ UNCHANGED <<phase, args, twin, calls>>

Call_short_range_function_third_derivative ==
    /\ Idle
    /\ \E q \in QGridOf(sch) :
          call' = [op |-> "short_range_function_third_derivative", q |-> q,
                   value |-> short_range_function_third_derivative(sch, q)]
    /\ sch' = SchemeAfterCall(sch)
    /\ UNCHANGED <<phase, args, twin, calls>>

(* the free function qPochhammerSymbol(q, l, P) *)
Call_qPochhammerSymbol ==
    /\ phase # "crashed"
    /\ call.op = "none"
    /\ \E q \in QBases, l \in 0..MaxLevel, P \in 0..MaxP :
          call' = [op |-> "qPochhammerSymbol", q |-> q, l |-> l, P |-> P,
                   value |-> qPochhammerSymbol(q, l, P)]
    /\ UNCHANGED <<phase, args, sch, twin, calls>>

(* the call returns to its caller *)
Call_calc_dielectric ==
    /\ Idle
    /\ \E M2V \in SquaredMoments :
          call' = [op |-> "calc_dielectric", M2V |-> M2V,
                   value |-> calc_dielectric(sch, M2V)]
    /\ sch' = SchemeAfterCall(sch)
    /\ UNCHANGED <<phase, args, twin, calls>>

Call_to_json ==
    /\ Idle
    /\ call' = [op |-> "to_json", value |-> to_json(sch, JsonEmpty)]
    /\ sch' = SchemeAfterCall(sch)
    /\ UNCHANGED <<phase, args, twin, calls>>

(* T(j) with the JSON that to_json has produced, T the class of the scheme *)
(* that produced it: a second object of the class, or an exception, or the *)
(* end of the process                                                      *)
Reload ==
    /\ phase = "ready"
    /\ call.op = "to_json"
    /\ \E o \in ConstructedFromJson(sch.variant, call.value) :
          IF o.phase = "crashed"
          THEN phase' = "crashed" /\ sch' = <<>> /\ call' = [op |-> "none"]
          ELSE /\ call' = [op |-> "reload", json |-> call.value,
                           throws |-> JsonThrows(sch.variant, call.value),
                           outcome |-> o]
               /\ UNCHANGED <<phase, sch>>
    /\ UNCHANGED <<args, twin, calls>>

Return ==
    /\ call.op # "none"
    /\ call' = [op |-> "none"]
    /\ UNCHANGED <<phase, args, sch, twin, calls>>

---------------------------------------------------------------------------

Init ==
    /\ phase = "none"
    /\ args = <<>>
    /\ sch = <<>>
    /\ call = [op |-> "none"]
    /\ twin = NoTwin
    /\ calls = NoCalls

Next ==
    \/ ConstructPlain
    \/ ConstructEwald
    \/ ConstructWolf
    \/ ConstructqPotential
    \/ ConstructPoissonSimple
    \/ ConstructPoisson
    \/ ConstructFanourgakis
    \/ Call_createScheme
    \/ Call_ion_potential
    \/ Call_dipole_potential
    \/ Call_ion_field
    \/ Call_dipole_field
    \/ Call_ion_ion_energy
    \/ Call_ion_dipole_energy
    \/ Call_dipole_dipole_energy
    \/ Call_ion_ion_force
    \/ Call_ion_dipole_force
    \/ Call_dipole_dipole_force
    \/ Call_dipole_torque
    \/ Call_self_energy
    \/ Call_calc_dielectric
    \/ Call_to_json
    \/ Reload
    \/ Call_short_range_function
    \/ Call_short_range_function_derivative
    \/ Call_short_range_function_second_derivative
    \/ Call_short_range_function_third_derivative
    \/ Call_qPochhammerSymbol
    \/ Return

Spec == Init /\ [][Next]_vars

(***************************************************************************)
(* The free functions. factorial, binomial and the q-Pochhammer functions  *)
(* take no scheme; MathSpec calls them on their own, before any scheme is  *)
(* constructed.                                                            *)
(***************************************************************************)
(* the q at which the derivative functions are called: the end points, an  *)
(* interior point and a negative q                                         *)
DerivativeBases == {Zero, Half, One, D(-1)}

(* the orders at which the derivatives are evaluated: at a q that is not   *)
(* an integer the exact rationals leave the 32 bit range when l + P grows  *)
MaxOrderAt(q, l) ==
    IF q[2] = 1 THEN MaxP
    ELSE IF MaxFractionDegree - l < MaxP THEN MaxFractionDegree - l ELSE MaxP

Call_qPochhammerSymbolDerivative ==
    /\ phase = "none"
    /\ call.op = "none"
    /\ \E q \in DerivativeBases : \E l \in 0..MaxLevel : \E P \in 0..MaxOrderAt(q, l) :
          call' = [op |-> "qPochhammerSymbolDerivative", q |-> q, l |-> l, P |-> P,
                   value |-> qPochhammerSymbolDerivative(q, l, P)]
    /\ UNCHANGED <<phase, args, sch, twin, calls>>

Call_qPochhammerSymbolSecondDerivative ==
    /\ phase = "none"
    /\ call.op = "none"
    /\ \E q \in DerivativeBases : \E l \in 0..MaxLevel : \E P \in 0..MaxOrderAt(q, l) :
          call' = [op |-> "qPochhammerSymbolSecondDerivative", q |-> q, l |-> l,
                   P |-> P, value |-> qPochhammerSymbolSecondDerivative(q, l, P)]
    /\ UNCHANGED <<phase, args, sch, twin, calls>>

Call_qPochhammerSymbolThirdDerivative ==
    /\ phase = "none"
    /\ call.op = "none"
    /\ \E q \in DerivativeBases : \E l \in 0..MaxLevel : \E P \in 0..MaxOrderAt(q, l) :
          call' = [op |-> "qPochhammerSymbolThirdDerivative", q |-> q, l |-> l,
                   P |-> P, value |-> qPochhammerSymbolThirdDerivative(q, l, P)]
    /\ UNCHANGED <<phase, args, sch, twin, calls>>

Call_factorial ==
    /\ phase = "none"
    /\ call.op = "none"
    /\ \E n \in 0..MaxFactorial :
          call' = [op |-> "factorial", n |-> n, value |-> factorial(n)]
    /\ UNCHANGED <<phase, args, sch, twin, calls>>

Call_binomial ==
    /\ phase = "none"
    /\ call.op = "none"
    /\ \E n \in 0..MaxFactorial : \E k \in 0..n :
          call' = [op |-> "binomial", n |-> n, k |-> k, value |-> binomial(n, k)]
    /\ UNCHANGED <<phase, args, sch, twin, calls>>

MathNext ==
    \/ Call_factorial
    \/ Call_binomial
    \/ Call_qPochhammerSymbol
    \/ Call_qPochhammerSymbolDerivative
    \/ Call_qPochhammerSymbolSecondDerivative
    \/ Call_qPochhammerSymbolThirdDerivative
    \/ Return

MathSpec == Init /\ [][MathNext]_vars

(***************************************************************************)
(* Screening in Poisson. ScreeningSpec constructs Poisson over a range of  *)
(* Debye lengths (none, strong, of either sign, and very weak) and calls   *)
(* the splitting function and its derivatives.                             *)
(***************************************************************************)
(* cutoff / debye_length is 0, 2, 1, -2 and 1/2000000 *)
ScreeningCutoff == D(2)
ScreeningDebye == {infinity, One, D(2), D(-1), D(4000000)}
ScreeningC == {1, 2}
ScreeningD == {-1, 0, 1, 2}

ConstructScreenedPoisson ==
    /\ phase = "none"
    /\ \E dl \in ScreeningDebye, C \in ScreeningC, DD \in ScreeningD :
          /\ args' = [variant |-> "Poisson", cutoff |-> ScreeningCutoff, C |-> C,
                      D |-> DD, debye_length |-> dl]
          /\ PoissonOutcome(PoissonInvalid(C, DD), PoissonUB(C, DD),
                            LAMBDA x : Poisson(ScreeningCutoff, C, DD, dl))
    /\ UNCHANGED <<call, twin, calls>>

ScreeningNext ==
    \/ ConstructScreenedPoisson
    \/ Call_short_range_function
    \/ Call_short_range_function_derivative
    \/ Call_short_range_function_second_derivative
    \/ Call_short_range_function_third_derivative
    \/ Return

ScreeningSpec == Init /\ [][ScreeningNext]_vars

(***************************************************************************)
(* Point dipoles against pairs of charges. TwoChargeSpec runs the          *)
(* comparison of the Plain test case: a dipole mu is replaced by the       *)
(* charges +-|mu| / (2 d) at +-d mu / |mu|, and the sums of the ion        *)
(* operations over the charges are recorded next to the dipole operation.  *)
(***************************************************************************)
Norm(v) == Sqrt(squaredNorm(v))

(* r_muA_1, r_muA_2, z_muA_1, z_muA_2 of the test, for a dipole at `at` *)
TwoCharges(mu, at, d) ==
    [r_1 |-> VAdd(at, VScale(Div(d, Norm(mu)), mu)),
     r_2 |-> VSub(at, VScale(Div(d, Norm(mu)), mu)),
     z_1 |-> Div(Norm(mu), Mul(D(2), d)),
     z_2 |-> Neg(Div(Norm(mu), Mul(D(2), d)))]

(* d / |r| for dipoles along r; for dipoles across r a pair, d / |r| of    *)
(* the potentials, fields and energies and d / |r| of the forces, chosen   *)
(* so that the distances between the charges are rational                  *)
AlongFractions == {<<1, 8>>, <<1, 16>>, <<1, 32>>}
AcrossFractions == {<<<<9, 40>>, <<7, 48>>>>, <<<<17, 144>>, <<9, 80>>>>}
TwoChargeLengths == {One, D(2), D(4)}
TwoChargeMoments == {One, D(-2)}

(* muA at the origin, muB at r, d for one dipole and dF for two *)
TwoChargeGeometries ==
    {[muA |-> <<a, Zero, Zero>>, muB |-> <<b, Zero, Zero>>, r |-> <<l, Zero, Zero>>,
      d |-> Mul(f, l), dF |-> Mul(f, l)] :
        a \in TwoChargeMoments, b \in TwoChargeMoments, l \in TwoChargeLengths,
        f \in AlongFractions}
    \cup
    {[muA |-> <<Zero, a, Zero>>, muB |-> <<Zero, b, Zero>>, r |-> <<One, Zero, Zero>>,
      d |-> f[1], dF |-> f[2]] :
        a \in TwoChargeMoments, b \in TwoChargeMoments, f \in AcrossFractions}

UnscreenedPlain == Idle /\ sch.variant = "Plain" /\ IsInf(sch.debye_length)

potA_sum(s, A, r) ==
    Add(ion_potential(s, A.z_1, Norm(VSub(r, A.r_1))),
        ion_potential(s, A.z_2, Norm(VSub(r, A.r_2))))

fieldA_sum(s, A, r) ==
    VAdd(ion_field(s, A.z_1, VSub(r, A.r_1)), ion_field(s, A.z_2, VSub(r, A.r_2)))

EA_sum(s, zB, A, r) ==
    Add(ion_ion_energy(s, zB, A.z_1, Norm(VSub(r, A.r_1))),
        ion_ion_energy(s, zB, A.z_2, Norm(VSub(r, A.r_2))))

F_dipoledipole_approx(s, A, B) ==
    VAdd(VAdd(VAdd(ion_ion_force(s, A.z_1, B.z_1, VSub(A.r_1, B.r_1)),
                   ion_ion_force(s, A.z_1, B.z_2, VSub(A.r_1, B.r_2))),
              ion_ion_force(s, A.z_2, B.z_1, VSub(A.r_2, B.r_1))),
         ion_ion_force(s, A.z_2, B.z_2, VSub(A.r_2, B.r_2)))

Check_potentials ==
    /\ UnscreenedPlain
    /\ \E g \in TwoChargeGeometries :
          call' = [op |-> "check_potentials", muA |-> g.muA, r |-> g.r, d |-> g.d,
                   point |-> <<dipole_potential(sch, g.muA, g.r), Zero, Zero>>,
                   sum |-> <<potA_sum(sch, TwoCharges(g.muA, VZero, g.d), g.r),
                             Zero, Zero>>]
    /\ sch' = SchemeAfterCall(sch)
    /\ UNCHANGED <<phase, args, twin, calls>>

Check_fields ==
    /\ UnscreenedPlain
    /\ \E g \in TwoChargeGeometries :
          call' = [op |-> "check_fields", muA |-> g.muA, r |-> g.r, d |-> g.d,
                   point |-> dipole_field(sch, g.muA, g.r),
                   sum |-> fieldA_sum(sch, TwoCharges(g.muA, VZero, g.d), g.r)]
    /\ sch' = SchemeAfterCall(sch)
    /\ UNCHANGED <<phase, args, twin, calls>>

Check_energies ==
    /\ UnscreenedPlain
    /\ \E g \in TwoChargeGeometries, zB \in Charges :
          call' = [op |-> "check_energies", zB |-> zB, muA |-> g.muA, r |-> g.r,
                   d |-> g.d,
                   point |-> <<ion_dipole_energy(sch, zB, g.muA, VNeg(g.r)), Zero, Zero>>,
                   sum |-> <<EA_sum(sch, zB, TwoCharges(g.muA, VZero, g.d), g.r),
                             Zero, Zero>>]
    /\ sch' = SchemeAfterCall(sch)
    /\ UNCHANGED <<phase, args, twin, calls>>

Check_forces ==
    /\ UnscreenedPlain
    /\ \E g \in TwoChargeGeometries :
          call' = [op |-> "check_forces", muA |-> g.muA, muB |-> g.muB, r |-> g.r,
                   d |-> g.dF,
                   point |-> dipole_dipole_force(sch, g.muA, g.muB, g.r),
                   sum |-> F_dipoledipole_approx(sch, TwoCharges(g.muA, VZero, g.dF),
                                                 TwoCharges(g.muB, g.r, g.dF))]
    /\ sch' = SchemeAfterCall(sch)
    /\ UNCHANGED <<phase, args, twin, calls>>

TwoChargeNext ==
    \/ ConstructPlain
    \/ Check_potentials
    \/ Check_fields
    \/ Check_energies
    \/ Check_forces
    \/ Return

TwoChargeSpec == Init /\ [][TwoChargeNext]_vars

(***************************************************************************)
(* The legacy header src/src/coulomb.h. LegacySpec constructs the legacy   *)
(* PairPotential<qPotential> (kept in `twin`) next to the current          *)
(* qPotential from the same arguments and calls the legacy operations.     *)
(***************************************************************************)
(* value *= (1.0 - temp); temp *= q;  with temp = std::pow(q, k) at first *)
legacy_qPochhammerSymbol(q, k, P) ==
    ProdFor(LAMBDA i : Sub(One, Mul(powi(q, k), PowNat(q, i))), 0, P, One)

legacy_qPotential(cutoff, order) ==
    [scheme |-> "qpotential", cutoff |-> cutoff, order |-> order, doi |-> "",
     name |-> "qpotential", self_energy_prefactor |-> D(-1)]

PairPotential(Tscheme) == [invcutoff |-> Div(One, Tscheme.cutoff)] @@ Tscheme

splitting_function(s, q) == legacy_qPochhammerSymbol(q, 1, s.order)

ion_ion(s, zz, r) ==
    IF Less(r, s.cutoff)
    THEN Mul(Div(zz, r), splitting_function(s, Mul(r, s.invcutoff)))
    ELSE Zero

LegacyOrders == (-1)..MaxP
LegacyLevels == (-1)..(MaxLevel + 1)

ConstructLegacyAndCurrent ==
    /\ phase = "none"
    /\ call.op = "none"
    /\ \E c \in qPotentialCutoffs, o \in LegacyOrders :
          /\ args' = [variant |-> "qPotential", cutoff |-> c, order |-> o]
          /\ sch' = qPotential(c, o)
          /\ twin' = [phase |-> "ready", sch |-> PairPotential(legacy_qPotential(c, o))]
    /\ phase' = "ready"
    /\ UNCHANGED <<call, calls>>

Call_ion_ion ==
    /\ Idle
    /\ twin.phase = "ready"
    /\ \E zA \in Charges, zB \in Charges, r \in Distances(sch) :
          call' = [op |-> "ion_ion", zA |-> zA, zB |-> zB, r |-> r,
                   value |-> ion_ion(twin.sch, Mul(zA, zB), r)]
    /\ UNCHANGED <<phase, args, sch, twin, calls>>

Call_legacy_qPochhammerSymbol ==
    /\ phase = "none"
    /\ call.op = "none"
    /\ \E q \in QBases, k \in LegacyLevels, P \in LegacyOrders :
          call' = [op |-> "legacy_qPochhammerSymbol", q |-> q, k |-> k, P |-> P,
                   value |-> legacy_qPochhammerSymbol(q, k, P)]
    /\ UNCHANGED <<phase, args, sch, twin, calls>>

LegacyNext ==
    \/ ConstructLegacyAndCurrent
    \/ Call_ion_ion
    \/ Call_legacy_qPochhammerSymbol
    \/ Return

LegacySpec == Init /\ [][LegacyNext]_vars

(***************************************************************************)
(* Several callers and two objects. A scheme is handed to callers that     *)
(* invoke operations on it without any lock; a second object of the same   *)
(* class may be constructed from the same arguments. A call is entered,    *)
(* then runs on the object it was made on, then its value is collected;    *)
(* the calls of different callers interleave freely.                       *)
(***************************************************************************)
SharedArgs ==
    {[variant |-> "Plain", debye_length |-> One],
     [variant |-> "Ewald", cutoff |-> D(2), alpha |-> One, eps_sur |-> D(2),
      debye_length |-> Half],
     [variant |-> "qPotential", cutoff |-> D(2), order |-> 3],
     [variant |-> "Poisson", cutoff |-> D(2), C |-> 1, D |-> -1,
      debye_length |-> infinity]}

(* the calls a caller makes on the object s *)
SharedCalls(s) ==
    {[op |-> "ion_potential", z |-> D(2), r |-> r] : r \in Distances(s)}
        \cup {[op |-> "self_energy", m2 |-> <<D(4), D(6)>>],
              [op |-> "calc_dielectric", M2V |-> D(3)]}

(* the value the call c returns on the object s *)
ResultOf(s, c) ==
    CASE c.op = "ion_potential" -> ion_potential(s, c.z, c.r)
      [] c.op = "self_energy" -> self_energy(s, c.m2).value
      [] c.op = "calc_dielectric" -> calc_dielectric(s, c.M2V)

(* the object a call is made on: 1 the first, 2 the second *)
Instance(on) == IF on = 1 THEN sch ELSE twin.sch

ConstructShared ==
    /\ phase = "none"
    /\ \E a \in SharedArgs :
          /\ args' = a
          /\ \E o \in Constructed(a) : phase' = o.phase /\ sch' = o.sch
    /\ UNCHANGED <<call, twin, calls>>

(* a second object of the same class from the same arguments; a trap in    *)
(* its constructor ends the process and every call with it                 *)
ConstructTwin ==
    /\ phase = "ready"
    /\ twin.phase = "none"
    /\ \E o \in Constructed(args) :
          IF o.phase = "crashed"
          THEN phase' = "crashed" /\ sch' = <<>> /\ calls' = NoCalls /\ twin' = twin
          ELSE twin' = o /\ UNCHANGED <<phase, sch, calls>>
    /\ UNCHANGED <<args, call>>

Invoke(t) ==
    /\ phase = "ready"
    /\ calls[t].pc = "idle"
    /\ \E on \in {1, 2} :
          /\ on = 2 => twin.phase = "ready"
          /\ \E c \in SharedCalls(Instance(on)) :
                calls' = [calls EXCEPT ![t] = [pc |-> "called", on |-> on, in |-> c]]
    /\ UNCHANGED <<phase, args, sch, call, twin>>

Run(t) ==
    /\ phase = "ready"
    /\ calls[t].pc = "called"
    /\ calls' = [calls EXCEPT ![t] =
                    [pc |-> "returned", on |-> calls[t].on, in |-> calls[t].in,
                     value |-> ResultOf(Instance(calls[t].on), calls[t].in)]]
    /\ IF calls[t].on = 1
       THEN sch' = SchemeAfterCall(sch) /\ twin' = twin
       ELSE twin' = [twin EXCEPT !.sch = SchemeAfterCall(twin.sch)] /\ sch' = sch
    /\ UNCHANGED <<phase, args, call>>

Collect(t) ==
    /\ phase = "ready"
    /\ calls[t].pc = "returned"
    /\ calls' = [calls EXCEPT ![t] = [pc |-> "idle"]]
    /\ UNCHANGED <<phase, args, sch, call, twin>>

SharedNext ==
    \/ ConstructShared
    \/ ConstructTwin
    \/ \E t \in Callers : Invoke(t)
    \/ \E t \in Callers : Run(t)
    \/ \E t \in Callers : Collect(t)

SharedSpec == Init /\ [][SharedNext]_vars

---------------------------------------------------------------------------
(* properties *)

SeparationOps ==
    {"ion_potential", "dipole_potential", "ion_field", "dipole_field",
     "ion_ion_energy", "ion_dipole_energy", "dipole_dipole_energy",
     "ion_ion_force", "ion_dipole_force", "dipole_dipole_force"}

ScalarSeparationOps == {"ion_potential", "ion_ion_energy"}

SplittingOps ==
    {"short_range_function", "short_range_function_derivative",
     "short_range_function_second_derivative", "short_range_function_third_derivative"}

DebyeSchemes == {"Plain", "Ewald", "Poisson"}

PoissonFamily == {"PoissonSimple", "Poisson"}

(* the separation length of the call being returned is at least the cutoff *)
AtOrBeyondCutoff ==
    IF call.op \in ScalarSeparationOps
    THEN ~Less(call.r, sch.cutoff)
    ELSE ~Less(Sqrt(squaredNorm(call.r)), sch.cutoff)

(* C1: every separation-taking operation of every scheme returns exactly   *)
(* zero (0 or the zero vector) when the separation length is >= cutoff,    *)
(* the cutoff itself included, whatever calls came before.                 *)
C1_ZeroAtAndBeyondCutoff ==
    (call.op \in SeparationOps /\ AtOrBeyondCutoff)
        => (call.value = Zero \/ call.value = VZero)

C1_Witness ==
    /\ phase = "ready"
    /\ call.op = "ion_potential"
    /\ sch.variant = "Ewald"
    /\ call.r = sch.cutoff
    /\ call.value = Zero

(* C2: for Plain, Ewald and Poisson the engine's kappa is the inverse of   *)
(* the Debye length given to the constructor, and ion_potential(z, r) for  *)
(* 0 < r < cutoff is z/r * s(q) * exp(-r/debye_length).                    *)
C2_KappaIsInverseDebyeLength ==
    (phase = "ready" /\ sch.variant \in DebyeSchemes)
        => /\ sch.kappa = Inv(args.debye_length)
           /\ (call.op = "ion_potential" /\ Less(call.r, sch.cutoff))
                 => call.value =
                        Mul(Mul(Div(call.z, call.r),
                                short_range_function(sch, Div(call.r, sch.cutoff))),
                            Exp(Neg(Div(call.r, args.debye_length))))

(* the scheme built from the same arguments with unbounded Debye length *)
Unscreened(a) ==
    CASE a.variant = "Plain" -> Plain(infinity)
      [] a.variant = "Ewald" -> Ewald(a.cutoff, a.alpha, a.eps_sur, infinity)
      [] a.variant = "Poisson" -> Poisson(a.cutoff, a.C, a.D, infinity)

(* ion_potential was called inside the cutoff on a scheme built with a     *)
(* finite Debye length                                                     *)
ScreenedPotentialCall ==
    /\ phase = "ready"
    /\ sch.variant \in DebyeSchemes
    /\ IsFinite(args.debye_length)
    /\ call.op = "ion_potential"
    /\ Less(call.r, sch.cutoff)

StrictlyWeakerThanUnscreened ==
    Less(FAbs(call.value), FAbs(ion_potential(Unscreened(args), call.z, call.r)))

(* C3 as stated: for Plain, Ewald and Poisson the screened ion_potential   *)
(* is strictly smaller in magnitude than the unscreened one at the same r. *)
C3_ScreenedIsWeaker == ScreenedPotentialCall => StrictlyWeakerThanUnscreened

(* C3: for Plain the ion_potential of the scheme built with a finite Debye *)
(* length is strictly smaller in magnitude than that of the scheme built   *)
(* with unbounded Debye length, for z # 0 and 0 < r < cutoff.              *)
C3_ScreenedPlainIsWeaker ==
    (ScreenedPotentialCall /\ sch.variant = "Plain") => StrictlyWeakerThanUnscreened

C3_Witness ==
    /\ ScreenedPotentialCall
    /\ sch.variant = "Plain"
    /\ call.value # Zero

(* C4: every variant, Poisson and PoissonSimple for every accepted C >= 1  *)
(* and D >= -1 included, can be built and has short_range_function(0) = 1. *)
C4_SplittingIsOneAtZero ==
    /\ (args # <<>> /\ args.variant \in PoissonFamily
            /\ ~PoissonInvalid(args.C, args.D)) => phase = "ready"
    /\ (call.op = "short_range_function" /\ call.q = Zero) => call.value = One

PoissonDerivative(op, s, q) ==
    CASE op = "short_range_function" -> Poisson_srf(s, q)
      [] op = "short_range_function_derivative" -> Poisson_dsrf(s, q)
      [] op = "short_range_function_second_derivative" -> Poisson_ddsrf(s, q)
      [] op = "short_range_function_third_derivative" -> Poisson_dddsrf(s, q)

(* C5: the splitting function of Fanourgakis(cutoff) and its first three   *)
(* derivatives equal those of Poisson(cutoff, 4, 3) with unbounded Debye   *)
(* length at every q called.                                               *)
C5_FanourgakisIsPoisson43 ==
    (phase = "ready" /\ sch.variant = "Fanourgakis" /\ call.op \in SplittingOps)
        => call.value = PoissonDerivative(call.op, Poisson(sch.cutoff, 4, 3, infinity),
                                          call.q)

C5_Witness ==
    /\ phase = "ready"
    /\ sch.variant = "Fanourgakis"
    /\ call.op = "short_range_function_third_derivative"
    /\ call.q = <<3, 8>>
    /\ call.value # Zero

qPotentialAtZero ==
    [short_range_function |-> One,
     short_range_function_derivative |-> D(-1),
     short_range_function_second_derivative |-> D(-2),
     short_range_function_third_derivative |-> Zero]

(* C6: the splitting function of a qPotential of order P >= 4 and its      *)
(* first three derivatives are all zero at q = 1 and equal to 1, -1, -2, 0 *)
(* at q = 0.                                                               *)
C6_qPotentialEndValues ==
    (phase = "ready" /\ sch.variant = "qPotential" /\ sch.order >= 4
         /\ call.op \in SplittingOps)
        => /\ call.q = One => call.value = Zero
           /\ call.q = Zero => call.value = qPotentialAtZero[call.op]

C6_Witness ==
    /\ phase = "ready"
    /\ sch.variant = "qPotential"
    /\ sch.order = 4
    /\ call.op = "short_range_function_third_derivative"
    /\ call.q = One
    /\ call.value = Zero

C8_InvalidParametersThrow ==
    /\ (args # <<>> /\ args.variant \in PoissonFamily
            /\ (args.C < 1 \/ args.D < -1)) => (phase = "failed" /\ sch = <<>>)
    /\ phase = "failed"
           => (args.variant \in PoissonFamily /\ (args.C < 1 \/ args.D < -1))

C8_Witness ==
    /\ phase = "failed"
    /\ args.variant = "Poisson"
    /\ IsFinite(args.debye_length)
    /\ args.C >= 1
    /\ args.D < -1

(* C10: self_energy of two moments returns                                 *)
(* prefactor[0]*m0/cutoff + prefactor[1]*m1/cutoff^3 with the prefactors   *)
(* set by the constructor, and 0 for Plain.                                *)
C10_SelfEnergyFormula ==
    (phase = "ready" /\ call.op = "self_energy")
        => /\ call.ret = "value"
           /\ call.value =
                  Add(Mul(Mul(sch.self_energy_prefactor[1], call.m2[1]), Inv(sch.cutoff)),
                      Mul(Mul(sch.self_energy_prefactor[2], call.m2[2]),
                          Inv(Mul(Mul(sch.cutoff, sch.cutoff), sch.cutoff))))
           /\ sch.variant = "Plain" => call.value = Zero

C10_Witness ==
    /\ phase = "ready"
    /\ call.op = "self_energy"
    /\ sch.variant = "Wolf"
    /\ call.m2 = <<D(4), D(6)>>
    /\ call.value = <<-9, 2>>

(* s'(1) - s(1) + s(0) of the scheme's own splitting function *)
SplittingT0(s) ==
    Add(Sub(short_range_function_derivative(s, One), short_range_function(s, One)),
        short_range_function(s, Zero))

(* 1 for a surrounding medium that is a conductor (eps_sur unbounded or    *)
(* below 1), else 2 (eps_sur - 1) / (2 eps_sur + 1)                         *)
SurroundingT0(eps_sur) ==
    IF Less(eps_sur, One) \/ IsInf(eps_sur) THEN One
    ELSE Div(Mul(D(2), Sub(eps_sur, One)), Add(Mul(D(2), eps_sur), One))

(* C11 as stated: the T0 of every constructed scheme, Ewald included, is   *)
(* s'(1) - s(1) + s(0) of its own splitting function.                      *)
C11_T0FromSplitting == phase = "ready" => sch.T0 = SplittingT0(sch)

(* C11: the T0 of every constructed scheme other than Ewald is             *)
(* s'(1) - s(1) + s(0) of its own splitting function; the T0 of Ewald is   *)
(* 1 when eps_sur is unbounded or below 1 and                              *)
(* 2 (eps_sur - 1) / (2 eps_sur + 1) otherwise.                            *)
C11_T0FromSplittingOrSurrounding ==
    phase = "ready"
        => sch.T0 = (IF sch.variant = "Ewald" THEN SurroundingT0(args.eps_sur)
                     ELSE SplittingT0(sch))

C11_Witness ==
    /\ phase = "ready"
    /\ sch.variant = "Ewald"
    /\ args.eps_sur = D(2)
    /\ sch.T0 = <<2, 5>>
    /\ SplittingT0(sch) # sch.T0

(* the class and the tag createScheme is asked for *)
ClassOfTag ==
    [plain |-> "Plain", ewald |-> "Ewald", wolf |-> "Wolf",
     poissonsimple |-> "PoissonSimple", poisson |-> "Poisson",
     qpotential |-> "qPotential", fanourgakis |-> "Fanourgakis"]

ByFactory == args # <<>> /\ "factory" \in DOMAIN args

(* C12: the object createScheme(tag, params) builds is the variant of the  *)
(* tag, and its field `scheme` is the tag asked for, for each of the seven *)
(* tags.                                                                   *)
C12_FactoryKeepsTag ==
    (ByFactory /\ args.factory \in SchemeTags /\ phase = "ready")
        => /\ sch.variant = ClassOfTag[args.factory]
           /\ sch.scheme = args.factory

(* C13: createScheme with a tag that is none of the seven raises no error, *)
(* builds nothing and returns an empty handle.                             *)
C13_UnknownTagGivesEmptyHandle ==
    (ByFactory /\ args.factory \notin SchemeTags) => (phase = "empty" /\ sch = <<>>)

C13_Witness ==
    /\ ByFactory
    /\ args.factory = "other"
    /\ phase = "empty"
    /\ sch = <<>>

(* C14: ion_field and dipole_potential share their scalar bracket:         *)
(* mu . ion_field(z, r) = z * dipole_potential(mu, r) for every scheme,    *)
(* charge z, dipole mu and separation r # 0, both sides being zero at and  *)
(* beyond the cutoff.                                                      *)
C14_FieldAndPotentialShareBracket ==
    /\ (phase = "ready" /\ call.op = "ion_field")
          => \A mu \in Dipoles :
                VDot(mu, call.value) = Mul(call.z, dipole_potential(sch, mu, call.r))
    /\ (phase = "ready" /\ call.op = "dipole_potential")
          => \A z \in Charges :
                VDot(call.mu, ion_field(sch, z, call.r)) = Mul(z, call.value)

C14_Witness ==
    /\ phase = "ready"
    /\ sch.variant = "Plain"
    /\ IsFinite(args.debye_length)
    /\ call.op = "ion_field"
    /\ call.z = D(2)
    /\ VDot(<<One, D(2), D(-1)>>, call.value) # Zero
    /\ VDot(<<One, D(2), D(-1)>>, call.value)
           = Mul(call.z, dipole_potential(sch, <<One, D(2), D(-1)>>, call.r))

(* C15: the pair energies and forces are compositions of the potentials    *)
(* and fields: ion_ion_energy = zB * ion_potential(zA, r),                 *)
(* ion_dipole_energy = z * dipole_potential(mu, -r),                       *)
(* dipole_dipole_energy = -muA . dipole_field(muB, r),                     *)
(* ion_ion_force = zB * ion_field(zA, r) and                               *)
(* ion_dipole_force = z * dipole_field(mu, r).                             *)
C15_EnergiesAndForcesCompose ==
    phase = "ready"
        => /\ call.op = "ion_ion_energy"
                 => call.value = Mul(call.zB, ion_potential(sch, call.zA, call.r))
           /\ call.op = "ion_dipole_energy"
                 => call.value = Mul(call.z, dipole_potential(sch, call.mu, VNeg(call.r)))
           /\ call.op = "dipole_dipole_energy"
                 => call.value = Neg(VDot(call.muA, dipole_field(sch, call.muB, call.r)))
           /\ call.op = "ion_ion_force"
                 => call.value = VScale(call.zB, ion_field(sch, call.zA, call.r))
           /\ call.op = "ion_dipole_force"
                 => call.value = VScale(call.z, dipole_field(sch, call.mu, call.r))

C15_Witness ==
    /\ phase = "ready"
    /\ sch.variant = "Wolf"
    /\ call.op = "ion_dipole_energy"
    /\ call.value # Zero
    /\ call.value = Neg(Mul(call.z, dipole_potential(sch, call.mu, call.r)))

(* C16: once a scheme is constructed, no public operation (potential,      *)
(* field, energy, force, torque, self_energy, splitting function or        *)
(* calc_dielectric) changes any member of it: the tag, name, citation,     *)
(* cutoff, Debye length, kappa, self-energy prefactors, T0 and the         *)
(* scheme-specific auxiliaries keep the values the constructor gave them.  *)
C16_OperationsLeaveTheSchemeUnchanged ==
    [][(phase = "ready" /\ phase' = "ready")
          => sch' = sch /\ sch' \in {c.sch : c \in Constructed(args)}]_vars

C16_Witness ==
    /\ phase = "ready"
    /\ call.op = "calc_dielectric"
    /\ call.M2V = D(3)
    /\ IsFinite(call.value)
    /\ call.value # One
    /\ sch \in {c.sch : c \in Constructed(args)}

(* C19: for the Plain scheme the splitting function is 1 and its first     *)
(* three derivatives are 0 at every q, the cutoff is unbounded, and with   *)
(* an unbounded Debye length ion_potential(z, r) = z / r at every          *)
(* distance.                                                               *)
C19_PlainIsBareCoulomb ==
    (phase = "ready" /\ sch.variant = "Plain")
        => /\ sch.cutoff = infinity
           /\ call.op = "short_range_function" => call.value = One
           /\ call.op \in {"short_range_function_derivative",
                           "short_range_function_second_derivative",
                           "short_range_function_third_derivative"}
                 => call.value = Zero
           /\ (call.op = "ion_potential" /\ sch.debye_length = infinity)
                 => call.value = Div(call.z, call.r)

C19_Witness ==
    /\ phase = "ready"
    /\ sch.variant = "Plain"
    /\ sch.debye_length = infinity
    /\ call.op = "ion_potential"
    /\ call.r = D(2)
    /\ call.z = D(-1)
    /\ call.value = <<-1, 2>>

(* the shape parameters of a scheme: what its constructor takes besides    *)
(* the cutoff and the Debye length                                         *)
ShapeParameters(s) ==
    CASE s.variant = "Ewald" -> <<s.alpha, s.eps_sur>>
      [] s.variant = "Wolf" -> <<s.alpha>>
      [] s.variant = "qPotential" -> <<s.order>>
      [] s.variant \in {"PoissonSimple", "Poisson"} -> <<s.C, s.D>>
      [] s.variant \in {"Plain", "Fanourgakis"} -> <<>>

ConstructedDebyeLength == IF "debye_length" \in DOMAIN args THEN args.debye_length ELSE infinity

(* C20: serialising a scheme with to_json and constructing the same        *)
(* variant from the produced JSON succeeds and gives a scheme with the     *)
(* same cutoff, Debye length and shape parameters, and the exposed         *)
(* debye_length of every scheme is the Debye length it was constructed     *)
(* with.                                                                   *)
C20_ReloadRoundTrip ==
    phase = "ready"
        => /\ sch.debye_length = ConstructedDebyeLength
           /\ call.op = "reload"
                 => /\ call.outcome.phase = "ready"
                    /\ call.outcome.sch.cutoff = sch.cutoff
                    /\ call.outcome.sch.debye_length = ConstructedDebyeLength
                    /\ ShapeParameters(call.outcome.sch) = ShapeParameters(sch)

(* C17: when several callers invoke operations on one scheme without       *)
(* locking, under every interleaving each call returns the value it        *)
(* returns when it runs alone on the scheme as constructed, and the scheme *)
(* is afterwards what its constructor made it.                             *)
C17_ConcurrentCallsReturnTheirOwnValues ==
    phase = "ready"
        => /\ sch = Build(args)
           /\ \A t \in Callers :
                 (calls[t].pc = "returned" /\ calls[t].on = 1)
                     => calls[t].value = ResultOf(Build(args), calls[t].in)

C17_Witness ==
    /\ phase = "ready"
    /\ sch.variant = "Ewald"
    /\ calls[1].pc = "called" /\ calls[1].on = 1 /\ calls[1].in.op = "self_energy"
    /\ calls[2].pc = "returned" /\ calls[2].on = 1
    /\ calls[2].in.op = "calc_dielectric"
    /\ calls[2].value = ResultOf(Build(args), calls[2].in)

FactorDerivative(m, k, q) ==
    IF k = 0 THEN Sub(One, powi(q, m))
    ELSE IF m < k THEN Zero
    ELSE IF k = 1 THEN Mul(D(-m), powi(q, m - 1))
    ELSE IF k = 2 THEN Mul(D(-m * (m - 1)), powi(q, m - 2))
    ELSE Mul(D(-m * (m - 1) * (m - 2)), powi(q, m - 3))

Hits(n, a, b, c) ==
    (IF a = n THEN 1 ELSE 0) + (IF b = n THEN 1 ELSE 0) + (IF c = n THEN 1 ELSE 0)

(* the product over n = 1..P of the factors 1 - q^(n+l), the factors a, b  *)
(* and c differentiated once each (0 stands for no factor)                 *)
ProductHitAt(q, l, P, a, b, c) ==
    ProdFor(LAMBDA n : FactorDerivative(n + l, Hits(n, a, b, c), q), 1, P + 1, One)

(* the derivatives of the product over n = 1..P of 1 - q^(n+l) by the      *)
(* product rule: every differentiation acts on one factor                  *)
ProductDerivative(q, l, P) ==
    SumFor(LAMBDA a : ProductHitAt(q, l, P, a, 0, 0), 1, P + 1, Zero)

ProductSecondDerivative(q, l, P) ==
    SumFor(LAMBDA a : SumFor(LAMBDA b : ProductHitAt(q, l, P, a, b, 0), 1, P + 1, Zero),
           1, P + 1, Zero)

ProductThirdDerivative(q, l, P) ==
    SumFor(LAMBDA a :
              SumFor(LAMBDA b :
                        SumFor(LAMBDA c : ProductHitAt(q, l, P, a, b, c),
                               1, P + 1, Zero),
                     1, P + 1, Zero),
           1, P + 1, Zero)

(* C21: for every q, l >= 0 and P >= 0 qPochhammerSymbolDerivative,        *)
(* qPochhammerSymbolSecondDerivative and qPochhammerSymbolThirdDerivative  *)
(* return the first, second and third derivative with respect to q of the  *)
(* polynomial qPochhammerSymbol(q, l, P), the product over n = 1..P of     *)
(* 1 - q^(n+l); all three are 0 when P = 0.                                *)
C21_DerivativesOfThePolynomial ==
    /\ call.op = "qPochhammerSymbol"
          => call.value = ProductHitAt(call.q, call.l, call.P, 0, 0, 0)
    /\ call.op = "qPochhammerSymbolDerivative"
          => call.value = ProductDerivative(call.q, call.l, call.P)
    /\ call.op = "qPochhammerSymbolSecondDerivative"
          => call.value = ProductSecondDerivative(call.q, call.l, call.P)
    /\ call.op = "qPochhammerSymbolThirdDerivative"
          => call.value = ProductThirdDerivative(call.q, call.l, call.P)
    /\ (/\ call.op \in {"qPochhammerSymbolDerivative",
                         "qPochhammerSymbolSecondDerivative",
                         "qPochhammerSymbolThirdDerivative"}
        /\ call.P = 0)
          => call.value = Zero

(* v = n!: v divided by 1, 2, ..., n in turn is 1 *)
IsFactorialOf(v, n) == ProdFor(LAMBDA i : Div(One, D(i)), 1, n + 1, D(v)) = One

(* the binomial coefficient n over k, as the product of (n - k + i) / i    *)
BinomialCoefficient(n, k) == ProdFor(LAMBDA i : Div(D(n - k + i), D(i)), 1, k + 1, One)

(* C22: in the 32 bit unsigned arithmetic of the code factorial(n) is n!   *)
(* for every n >= 0 and binomial(n, k) is the binomial coefficient         *)
(* n! / (k! (n-k)!) for every 0 <= k <= n.                                 *)
C22_FactorialAndBinomialAreExact ==
    /\ call.op = "factorial" => (call.value >= 0 /\ IsFactorialOf(call.value, call.n))
    /\ call.op = "binomial"
          => (call.value >= 0 /\ D(call.value) = BinomialCoefficient(call.n, call.k))

---------------------------------------------------------------------------
(* PoissonSimple against Poisson *)

PoissonSimpleDerivative(op, s, q) ==
    CASE op = "short_range_function" -> PoissonSimple_srf(s, q)
      [] op = "short_range_function_derivative" -> PoissonSimple_dsrf(s, q)
      [] op = "short_range_function_second_derivative" -> PoissonSimple_ddsrf(s, q)
      [] op = "short_range_function_third_derivative" -> PoissonSimple_dddsrf(s, q)

(* the constructor was given accepted (C, D) and no finite Debye length    *)
UnscreenedPoissonPair ==
    /\ args # <<>>
    /\ args.variant \in PoissonFamily
    /\ ~PoissonInvalid(args.C, args.D)
    /\ args.variant = "Poisson" => IsInf(args.debye_length)

(* what the other class of the pair returns for the call in progress *)
SiblingValue(op, a, q) ==
    IF a.variant = "PoissonSimple"
    THEN PoissonDerivative(op, Poisson(a.cutoff, a.C, a.D, infinity), q)
    ELSE PoissonSimpleDerivative(op, PoissonSimple(a.cutoff, a.C, a.D), q)

SiblingConstants(a) ==
    IF a.variant = "PoissonSimple"
    THEN Poisson(a.cutoff, a.C, a.D, infinity)
    ELSE PoissonSimple(a.cutoff, a.C, a.D)

SameAsSibling ==
    /\ sch.self_energy_prefactor = SiblingConstants(args).self_energy_prefactor
    /\ sch.T0 = SiblingConstants(args).T0
    /\ call.op \in SplittingOps => call.value = SiblingValue(call.op, args, call.q)

(* C23: PoissonSimple(cutoff, C, D) and Poisson(cutoff, C, D) with         *)
(* unbounded Debye length are both built for every C >= 1 and D >= -1, and *)
(* give the same s, s', s'', s''', self-energy prefactors and T0.          *)
C23_PoissonSimpleIsUnscreenedPoisson ==
    UnscreenedPoissonPair => (phase = "ready" /\ SameAsSibling)

---------------------------------------------------------------------------
(* the substitution of Poisson *)

(* qp(q) = (1 - exp(2 kR q)) / (1 - exp(2 kR)), and q when kR = 0 *)
Substituted(kR, q) ==
    IF kR = Zero THEN q
    ELSE Div(Sub(One, Exp(Mul(Mul(D(2), kR), q))), Sub(One, Exp(Mul(D(2), kR))))

(* -(C + D) / C times the slope of qp at 0 *)
SubstitutedPrefactor(C, DD, kR) ==
    IF kR = Zero THEN Div(Neg(D(C + DD)), D(C))
    ELSE Mul(Div(Neg(D(C + DD)), D(C)),
             Div(Mul(D(-2), kR), Sub(One, Exp(Mul(D(2), kR)))))

ReducedKappa(a) == Div(a.cutoff, a.debye_length)

SubstitutionUsed ==
    /\ sch.yukawa <=> (ReducedKappa(args) # Zero)
    /\ sch.self_energy_prefactor
          = <<SubstitutedPrefactor(args.C, args.D, ReducedKappa(args)),
              SubstitutedPrefactor(args.C, args.D, ReducedKappa(args))>>
    /\ call.op = "short_range_function"
          => call.value = PoissonS(args.C, args.D,
                                   Substituted(ReducedKappa(args), call.q))

EndValuesPreserved ==
    call.op = "short_range_function"
        => /\ call.q = Zero => call.value = One
           /\ (call.q = One /\ args.D >= 0) => call.value = Zero

(* C24: Poisson evaluates s with q replaced by qp(q) and rescales the      *)
(* self-energy prefactor whenever kR = cutoff / debye_length is not zero,  *)
(* and uses qp = q only when kR is zero; s(0) = 1 and, for D >= 0,         *)
(* s(1) = 0 hold for every kR.                                             *)
C24_SubstitutionWheneverScreened ==
    (args # <<>> /\ args.variant = "Poisson" /\ ~PoissonInvalid(args.C, args.D))
        => (phase = "ready" /\ SubstitutionUsed /\ EndValuesPreserved)

---------------------------------------------------------------------------
(* point dipoles as the limit of two charges *)

TwoChargeChecks ==
    {"check_potentials", "check_fields", "check_energies", "check_forces"}

ConvergenceConstant == D(8)

(* |sum - point| <= ConvergenceConstant * (d / |r|)^2 * |point| *)
WithinSecondOrder(sum, point, d, r) ==
    IF point = Zero THEN sum = Zero
    ELSE ~Less(Mul(ConvergenceConstant, Div(Mul(d, d), squaredNorm(r))),
               FAbs(Sub(Div(sum, point), One)))

---------------------------------------------------------------------------
(* the arguments of binomial in the Poisson classes *)

(* <<n, k>> of every binomial(n, k) evaluated by the constructor and by    *)
(* short_range_function of the class built from arguments a                *)
BinomialCallsOf(a) ==
    {<<a.D - 1 + c, c>> : c \in 0..(a.C - 1)}
    \cup (IF a.variant = "Poisson" THEN {<<a.C + a.D, a.C>>} ELSE {})

(* C26: for every (C, D) with C >= 1 and D >= -1, (1, -1) and (1, 0)       *)
(* included, construction of Poisson and PoissonSimple completes, and      *)
(* every binomial(n, k) it and s(q) evaluate has 0 <= k <= n.              *)
C26_BinomialArgumentsInRange ==
    (args # <<>> /\ args.variant \in PoissonFamily /\ ~PoissonInvalid(args.C, args.D))
        => /\ phase = "ready"
           /\ \A nk \in BinomialCallsOf(args) : 0 <= nk[2] /\ nk[2] <= nk[1]

---------------------------------------------------------------------------
(* legacy against current *)

LegacyAgrees ==
    /\ call.op = "ion_ion"
          => call.value = ion_ion_energy(sch, call.zA, call.zB, call.r)
    /\ call.op = "legacy_qPochhammerSymbol"
          => call.value = qPochhammerSymbol(call.q, call.k - 1, call.P)

(* the order, and for the free function the level l = k - 1, is not negative *)
CountsFromZero ==
    /\ call.op = "ion_ion" => sch.order >= 0
    /\ call.op = "legacy_qPochhammerSymbol" => (call.k >= 1 /\ call.P >= 0)

(* C27 as stated: legacy PairPotential<qPotential>(cutoff, P).ion_ion(zA   *)
(* zB, r) equals current qPotential(cutoff, P).ion_ion_energy(zA, zB, r)   *)
(* for every order P, and current qPochhammerSymbol(q, l, P) equals legacy *)
(* qPochhammerSymbol(q, l + 1, P) for all q, l, P.                         *)
C27_LegacyAgreesEverywhere == LegacyAgrees

(* C27: the two agree for every order P >= 0 and every level l >= 0.       *)
C27_LegacyAgreesFromZero == CountsFromZero => LegacyAgrees

C27_Witness ==
    /\ call.op = "ion_ion"
    /\ sch.order = 3
    /\ Less(call.r, sch.cutoff)
    /\ call.value # Zero
    /\ call.value = ion_ion_energy(sch, call.zA, call.zB, call.r)

---------------------------------------------------------------------------
(* pair symmetry *)

(* C28: for every scheme dipole_dipole_energy is unchanged when muA and    *)
(* muB are exchanged and when r is reversed, and dipole_dipole_force and   *)
(* ion_ion_force change sign when r is reversed.                           *)
C28_PairSymmetry ==
    /\ call.op = "dipole_dipole_energy"
          => /\ call.value = dipole_dipole_energy(sch, call.muB, call.muA, call.r)
             /\ call.value = dipole_dipole_energy(sch, call.muA, call.muB, VNeg(call.r))
    /\ call.op = "dipole_dipole_force"
          => VNeg(call.value) = dipole_dipole_force(sch, call.muA, call.muB, VNeg(call.r))
    /\ call.op = "ion_ion_force"
          => VNeg(call.value) = ion_ion_force(sch, call.zA, call.zB, VNeg(call.r))

C28_Witness ==
    /\ call.op = "dipole_dipole_energy"
    /\ sch.variant = "Wolf"
    /\ call.muA # call.muB
    /\ call.value # Zero
    /\ call.value = dipole_dipole_energy(sch, call.muB, call.muA, VNeg(call.r))

---------------------------------------------------------------------------
(* the surrounding medium of Ewald *)

(* C29: Ewald constructed with eps_sur < 1 has T0 = 1 and stores and       *)
(* reports an unbounded eps_sur; constructed with eps_sur >= 1 it stores   *)
(* the argument and has T0 = 2 (eps_sur - 1) / (2 eps_sur + 1), which is 1 *)
(* for an unbounded eps_sur.                                               *)
C29_SurroundingReplacedConsistently ==
    (phase = "ready" /\ sch.variant = "Ewald")
        => IF Less(args.eps_sur, One)
           THEN /\ sch.T0 = One
                /\ IsInf(sch.eps_sur)
                /\ call.op = "to_json" => call.value["epss"] = JStr("inf")
           ELSE /\ sch.eps_sur = args.eps_sur
                /\ sch.T0 = SurroundingT0(args.eps_sur)
                /\ call.op = "to_json"
                      => call.value["epss"] = IF IsInf(args.eps_sur) THEN JStr("inf")
                                              ELSE JNum(args.eps_sur)

---------------------------------------------------------------------------
(* the constants of Fanourgakis against Poisson(cutoff, 4, 3) *)

Poisson43(s) == Poisson(s.cutoff, 4, 3, infinity)

SameT0AsPoisson43 ==
    /\ sch.T0 = Poisson43(sch).T0
    /\ call.op = "calc_dielectric"
          => call.value = calc_dielectric(Poisson43(sch), call.M2V)

SameSelfEnergyAsPoisson43 ==
    /\ sch.self_energy_prefactor = Poisson43(sch).self_energy_prefactor
    /\ call.op = "self_energy" => call.value = self_energy(Poisson43(sch), call.m2).value

(* C30: Fanourgakis(cutoff) has the self-energy prefactor pair and the T0  *)
(* of Poisson(cutoff, 4, 3), so self_energy and calc_dielectric of the two *)
(* agree for all inputs.                                                   *)
C30_FanourgakisConstantsArePoisson43 ==
    (phase = "ready" /\ sch.variant = "Fanourgakis")
        => (SameT0AsPoisson43 /\ SameSelfEnergyAsPoisson43)

====
